---------------------------- MODULE Spec2Model ----------------------------
(***************************************************************************)
(* A model of the REFI-QDA interchange engine of QualCoder                 *)
(* (qualcoder/refi.py): the importer RefiImport and the exporter           *)
(* RefiExport over the relational store.                                   *)
(*                                                                         *)
(* Conventions                                                             *)
(*   - a Python string is a sequence of strings, one per character (or    *)
(*     one per opaque token such as a name);                               *)
(*   - Python's None is NULL (0) for a row id and None for a string;       *)
(*   - a table of the store is the sequence of its rows in insertion      *)
(*     order;                                                              *)
(*   - an XML element is a record [tag, a (attributes), text, kids].       *)
(***************************************************************************)
EXTENDS Integers, Sequences, FiniteSets, TLC

VARIABLES
    pc,        \* position of the run that is under way
    guids,     \* RefiExport.guids: every GUID issued so far
    returned,  \* the values create_guid has returned, in call order
    db,        \* the relational store (sqlite tables)
    imp,       \* the fields of the RefiImport object
    inp,       \* the input of the operation under study
    out        \* the result of the operation under study

vars == <<pc, guids, returned, db, imp, inp, out>>

NULL == 0
None == <<"None">>

(***************************************************************************)
(* Sequence helpers                                                        *)
(***************************************************************************)
Range(s) == { s[i] : i \in 1..Len(s) }

\* Python slice s[a:b] for 0 <= a, on a sequence (0-based, end exclusive).
Slice(s, a, b) ==
    LET hi == IF b > Len(s) THEN Len(s) ELSE b
    IN  IF a >= hi THEN <<>> ELSE [i \in 1..(hi - a) |-> s[a + i]]

RECURSIVE Concat(_)
Concat(ss) == IF ss = <<>> THEN <<>> ELSE Head(ss) \o Concat(Tail(ss))

\* Python sep.join(parts)
RECURSIVE Join(_, _)
Join(sep, parts) ==
    IF parts = <<>> THEN <<>>
    ELSE IF Len(parts) = 1 THEN parts[1]
    ELSE parts[1] \o sep \o Join(sep, Tail(parts))

SeqsUpTo(S, n) == UNION { [1..k -> S] : k \in 0..n }

(***************************************************************************)
(* GUID registry: RefiExport.create_guid                                   *)
(***************************************************************************)
UuidSpace == 4   \* how many distinct values uuid4 can draw in the model
MaxGuids  == 3   \* calls of create_guid in one session
MaxDraws  == 3   \* uuid4 draws one call of create_guid may need

HexDigits == <<"0", "1", "2", "3", "4", "5", "6", "7",
               "8", "9", "a", "b", "c", "d", "e", "f">>
HexSet == Range(HexDigits)

\* uuid.uuid4().hex of the k-th value the generator can draw: 32 hex digits,
\* the version digit 4 at index 12 and a variant digit at index 16.
uuid4hex(k) ==
    [i \in 1..32 |->
        IF i = 1 THEN HexDigits[((k \div 16) % 16) + 1]
        ELSE IF i = 2 THEN HexDigits[(k % 16) + 1]
        ELSE IF i = 13 THEN "4"
        ELSE IF i = 17 THEN "8"
        ELSE "0"]

\* "-".join([v[0:8], v[8:12], v[12:16], v[16:20], v[20:33]])
FormatGuidShort(v) ==
    Join(<<"-">>, <<Slice(v, 0, 8), Slice(v, 8, 12), Slice(v, 12, 16),
                    Slice(v, 16, 20), Slice(v, 20, 31)>>)

FormatGuid(v) ==
    Join(<<"-">>, <<Slice(v, 0, 8), Slice(v, 8, 12), Slice(v, 12, 16),
                    Slice(v, 16, 20), Slice(v, 20, 33)>>)

\* The formatted candidate of each value uuid4 can draw.
Candidate == [k \in 0..(UuidSpace - 1) |-> FormatGuid(uuid4hex(k))]

\* The while loop of create_guid: the index of the draw at which it stops,
\* starting at draw i (it regenerates as long as the candidate was issued).
RECURSIVE RetryLoop(_, _, _)
RetryLoop(issued, draws, i) ==
    IF Candidate[draws[i]] \in Range(issued) /\ i < Len(draws)
    THEN RetryLoop(issued, draws, i + 1)
    ELSE i

\* create_guid without the duplicate test: the first candidate is returned.
create_guid_unchecked(issued, draws) == Candidate[draws[1]]

\* create_guid with a final group cut one digit short.
create_guid_short(issued, draws) ==
    FormatGuidShort(uuid4hex(draws[RetryLoop(issued, draws, 1)]))

\* The value create_guid appends to self.guids and returns, given the
\* values uuid4 draws during the call.
create_guid(issued, draws) == Candidate[draws[RetryLoop(issued, draws, 1)]]

\* The draws of one terminating call: all but the last were duplicates and
\* the last one is new.
CallDraws(issued) ==
    { d \in SeqsUpTo(0..(UuidSpace - 1), MaxDraws) :
        /\ d # <<>>
        /\ RetryLoop(issued, d, 1) = Len(d)
        /\ Candidate[d[Len(d)]] \notin Range(issued) }

EmptyDb ==
    [code_cat |-> <<>>, code_name |-> <<>>, source |-> <<>>, cases |-> <<>>,
     code_text |-> <<>>, code_image |-> <<>>, code_av |-> <<>>,
     annotation |-> <<>>, attribute_type |-> <<>>, attribute |-> <<>>,
     case_text |-> <<>>, journal |-> <<>>, project_memo |-> <<>>]

\* RefiImport.__init__
NewImport ==
    [codes |-> <<>>, users |-> <<>>, cases |-> <<>>, sources |-> <<>>,
     variables |-> <<>>, file_vars |-> <<>>, annotations |-> <<>>,
     sources_name |-> <<"/Sources">>, base_path |-> <<>>,
     software_name |-> <<>>]

GuidInit ==
    /\ pc = "guid"
    /\ guids = <<>>
    /\ returned = <<>>
    /\ db = EmptyDb
    /\ imp = NewImport
    /\ inp = <<>>
    /\ out = <<>>

CreateGuidCall ==
    /\ pc = "guid"
    /\ Len(guids) < MaxGuids
    /\ \E d \in CallDraws(guids) :
          /\ guids' = Append(guids, create_guid(guids, d))
          /\ returned' = Append(returned, create_guid(guids, d))
          /\ inp' = d
    /\ UNCHANGED <<pc, db, imp, out>>

GuidNext == CreateGuidCall

SpecGuid == GuidInit /\ [][GuidNext]_vars

\* The 8-4-4-4-12 shape: five groups of hex digits joined by "-".
GuidShape(g) ==
    /\ Len(g) = 36
    /\ \A i \in 1..36 :
          IF i \in {9, 14, 19, 24} THEN g[i] = "-" ELSE g[i] \in HexSet

NoDuplicates(s) == \A i, j \in 1..Len(s) : i # j => s[i] # s[j]

\* C3: in every reachable state of an export session the issued list has no
\* duplicates, the N values returned by N calls of create_guid are pairwise
\* distinct, and each has the 8-4-4-4-12 hex-group shape.
C3_GuidUnique ==
    pc = "guid" =>
        /\ NoDuplicates(guids)
        /\ NoDuplicates(returned)
        /\ \A i \in 1..Len(returned) : GuidShape(returned[i])

\* A call that had to regenerate (its first candidate was already issued)
\* has returned, with earlier GUIDs issued.
C3_Witness ==
    /\ pc = "guid"
    /\ Len(returned) >= 3
    /\ Len(inp) >= 2

(***************************************************************************)
(* XML elements and the store's insert statements                          *)
(***************************************************************************)
\* element.get(k): the attribute, or None when the element does not have it.
Get(e, k) == IF k \in DOMAIN e.a THEN e.a[k] ELSE None

\* Whether the element has the attribute (for attributes read with int()).
Has(e, k) == k \in DOMAIN e.a

Elem(tag, attrs, text, kids) ==
    [tag |-> tag, a |-> attrs, text |-> text, kids |-> kids]

IsDescription(e) == e.tag = "Description"
IsCode(e) == e.tag = "Code"

MaxOf(S) == IF S = {} THEN 0
            ELSE LET x == CHOOSE y \in S : \A z \in S : z <= y IN x

\* last_insert_rowid() of the next insert into a table keyed by field k.
NextId(tbl, k) == MaxOf({ tbl[i][k] : i \in 1..Len(tbl) }) + 1

\* unique(name): a second row of the same non-null name is rejected.
NameTaken(tbl, name) ==
    name # None /\ \E i \in 1..Len(tbl) : tbl[i].name = name

\* insert into code_cat (name, memo, owner, date, supercatid):
\* [ok, db, id]; not ok is sqlite3.IntegrityError.
insert_code_cat(d, name, memo, supercatid) ==
    IF NameTaken(d.code_cat, name)
    THEN [ok |-> FALSE, db |-> d, id |-> NULL]
    ELSE LET id == NextId(d.code_cat, "catid")
         IN  [ok |-> TRUE, id |-> id,
              db |-> [d EXCEPT !.code_cat = Append(@,
                        [catid |-> id, name |-> name, memo |-> memo,
                         supercatid |-> supercatid])]]

\* insert into code_name (name, memo, owner, date, catid, color)
insert_code_name(d, name, memo, catid, color) ==
    IF NameTaken(d.code_name, name)
    THEN [ok |-> FALSE, db |-> d, id |-> NULL]
    ELSE LET id == NextId(d.code_name, "cid")
         IN  [ok |-> TRUE, id |-> id,
              db |-> [d EXCEPT !.code_name = Append(@,
                        [cid |-> id, name |-> name, memo |-> memo,
                         catid |-> catid, color |-> color])]]

(***************************************************************************)
(* Codebook import: RefiImport.sub_codes                                   *)
(* st = [db, codes, counter]: the store, self.codes and the running count  *)
(***************************************************************************)
DefaultColor == <<"#999999">>

\* The text of the last Description child, "" when there is none.
RECURSIVE DescriptionOf(_, _, _)
DescriptionOf(kids, i, acc) ==
    IF i > Len(kids) THEN acc
    ELSE DescriptionOf(kids, i + 1,
                       IF IsDescription(kids[i]) THEN kids[i].text ELSE acc)

ColorOf(e) == IF Get(e, "color") = None THEN DefaultColor ELSE Get(e, "color")

\* The try block of a code row, were it to count a rejected insert as well
InsertCodeCounted(e, catid, description, st) ==
    LET r == insert_code_name(st.db, Get(e, "name"), description, catid,
                              ColorOf(e))
    IN  IF r.ok
        THEN [db |-> r.db,
              codes |-> Append(st.codes, [guid |-> Get(e, "guid"), cid |-> r.id]),
              counter |-> st.counter + 1]
        ELSE [st EXCEPT !.counter = @ + 1]

\* The try block that inserts a code row for element e under category catid.
InsertCodeFor(e, catid, description, st) ==
    LET r == insert_code_name(st.db, Get(e, "name"), description, catid,
                              ColorOf(e))
    IN  IF r.ok
        THEN [db |-> r.db,
              codes |-> Append(st.codes, [guid |-> Get(e, "guid"), cid |-> r.id]),
              counter |-> st.counter + 1]
        ELSE st

\* The category branch up to the recursion: the category row, and the code
\* row of a codable category. Returns [st, last_insert_id].
InsertCategoryFor(parent, cat_id, description, st) ==
    LET name == Get(parent, "name")
        rc == insert_code_cat(st.db, name, description, cat_id)
        st1 == IF rc.ok
               THEN [st EXCEPT !.db = rc.db, !.counter = @ + 1]
               ELSE st
        last == IF rc.ok THEN rc.id ELSE NULL
    IN  IF name = None THEN [st |-> st, last |-> NULL]
        ELSE IF Get(parent, "isCodable") = <<"true">>
        THEN [st |-> InsertCodeFor(parent, last, description, st1), last |-> last]
        ELSE [st |-> st1, last |-> last]

RECURSIVE sub_codes(_, _, _)
RECURSIVE sub_codes_children(_, _, _, _)

\* for e in elements: if e is no Description: counter += sub_codes(e, last)
sub_codes_children(kids, i, last, st) ==
    IF i > Len(kids) THEN st
    ELSE sub_codes_children(kids, i + 1, last,
            IF IsDescription(kids[i]) THEN st
            ELSE sub_codes(kids[i], last, st))

sub_codes(parent, cat_id, st) ==
    LET elements == parent.kids
        description == DescriptionOf(elements, 1, <<>>)
        is_category == \E i \in 1..Len(elements) : IsCode(elements[i])
    IN  IF is_category
        THEN LET r == InsertCategoryFor(parent, cat_id, description, st)
             IN  sub_codes_children(elements, 1, r.last, r.st)
        ELSE IF elements = <<>>
        THEN InsertCodeFor(parent, cat_id, description, st)
        ELSE IF Len(elements) = 1 /\ IsDescription(elements[1])
        THEN InsertCodeFor(parent, cat_id, description, st)
        ELSE st

(***************************************************************************)
(* sub_codes on one top-level Code element of a CodeBook                   *)
(***************************************************************************)
CodeNames == { <<"A">>, <<"B">> }

DescriptionElem == Elem("Description", <<>>, <<"memo">>, <<>>)
NoteRefElem == Elem("NoteRef", [targetGUID |-> <<"n1">>], None, <<>>)

CodeElem(name, guid, codable, color, kids) ==
    Elem("Code",
         (IF name = None THEN <<>> ELSE [name |-> name])
           @@ [guid |-> guid, isCodable |-> codable]
           @@ (IF color = None THEN <<>> ELSE [color |-> color]),
         None, kids)

\* Code elements without Code children, by their other children.
LeafKids == { <<>>, <<DescriptionElem>>, <<NoteRefElem>>,
              <<DescriptionElem, NoteRefElem>> }

LeafElems(guid, kidsets) ==
    { CodeElem(n, guid, <<"true">>, c, k) :
        n \in CodeNames, c \in {None, <<"#ff0000">>}, k \in kidsets }

\* A subcategory with one code in it.
SubCategoryElems ==
    { CodeElem(n, <<"g2">>, cd, None, <<l>>) :
        n \in CodeNames, cd \in {<<"true">>, <<"false">>},
        l \in LeafElems(<<"g3">>, {<<>>}) }

CategoryKids ==
    { <<l>> : l \in LeafElems(<<"g1">>, {<<>>, <<DescriptionElem>>}) }
    \cup { <<l, m>> : l \in LeafElems(<<"g1">>, {<<>>}),
                      m \in LeafElems(<<"g2">>, {<<>>}) \cup SubCategoryElems }

CategoryElems ==
    { CodeElem(n, <<"g0">>, cd, None, d \o k) :
        n \in CodeNames \cup {None}, cd \in {<<"true">>, <<"false">>},
        d \in {<<>>, <<DescriptionElem>>}, k \in CategoryKids }

TopElems == LeafElems(<<"g0">>, LeafKids) \cup CategoryElems

\* The stores the import can run in: empty, or holding a category and/or a
\* code named A from an earlier import.
OldCategory == [catid |-> 1, name |-> <<"A">>, memo |-> <<>>, supercatid |-> NULL]
OldCode == [cid |-> 1, name |-> <<"A">>, memo |-> <<>>, catid |-> NULL,
            color |-> DefaultColor]

PriorDbs ==
    { [EmptyDb EXCEPT !.code_cat = c, !.code_name = n] :
        c \in {<<>>, <<OldCategory>>}, n \in {<<>>, <<OldCode>>} }

CodebookInit ==
    /\ pc = "sub_codes"
    /\ guids = <<>>
    /\ returned = <<>>
    /\ \E d \in PriorDbs : db = d /\ \E e \in TopElems : inp = [elem |-> e, db0 |-> d]
    /\ imp = NewImport
    /\ out = <<>>

\* count += self.sub_codes(code, None), for one Code of Codes
SubCodesCall ==
    /\ pc = "sub_codes"
    /\ LET st == sub_codes(inp.elem, NULL,
                           [db |-> db, codes |-> imp.codes, counter |-> 0])
       IN  /\ db' = st.db
           /\ imp' = [imp EXCEPT !.codes = st.codes]
           /\ out' = st.counter
    /\ pc' = "done"
    /\ UNCHANGED <<guids, returned, inp>>

CodebookNext == SubCodesCall

SpecCodebook == CodebookInit /\ [][CodebookNext]_vars

\* The rows of a table that the run added.
NewRows(tbl, tbl0) == { tbl[i] : i \in (Len(tbl0) + 1)..Len(tbl) }

\* A Code element with Code children, a name and isCodable="true".
IsCodableCategory(e) ==
    /\ IsCode(e)
    /\ \E i \in 1..Len(e.kids) : IsCode(e.kids[i])
    /\ Get(e, "name") # None
    /\ Get(e, "isCodable") = <<"true">>

\* One category row and one code row of the element's name were added, the
\* code row under the new category row, and the GUID maps to the code row.
CodableCategoryDuplicated(e) ==
    LET cats == { r \in NewRows(db.code_cat, inp.db0.code_cat) :
                    r.name = Get(e, "name") }
        cods == { r \in NewRows(db.code_name, inp.db0.code_name) :
                    r.name = Get(e, "name") }
    IN  /\ Cardinality(cats) = 1
        /\ Cardinality(cods) = 1
        /\ \A c \in cats, k \in cods :
              /\ k.catid = c.catid
              /\ [guid |-> Get(e, "guid"), cid |-> k.cid] \in Range(imp.codes)

\* C4: sub_codes on a codable category adds exactly one category
\* row and one code row of its name, the code under the new category, in
\* every store state, also when a category of that name already exists.
C4_CodableCategory ==
    (pc = "done" /\ IsCodableCategory(inp.elem))
        => CodableCategoryDuplicated(inp.elem)

(***************************************************************************)
(* Transcript time points: RefiExport.get_transcript_timepoints            *)
(***************************************************************************)
MaxSegs == 3

Digits == {"0", "1", "2", "3", "4", "5", "6", "7", "8", "9"}

DigitVal(c) == CHOOSE k \in 0..9 : HexDigits[k + 1] = c

\* int(s) for a string of decimal digits, with a sign or without
RECURSIVE int(_)
int(s) == IF s = <<>> THEN 0
          ELSE IF s[1] = "-" THEN 0 - int(Tail(s))
          ELSE 10 * int(SubSeq(s, 1, Len(s) - 1)) + DigitVal(s[Len(s)])

\* str(n) of an integer
RECURSIVE str(_)
str(n) == IF n < 0 THEN <<"-">> \o str(0 - n)
          ELSE IF n < 10 THEN <<HexDigits[n + 1]>>
          ELSE str(n \div 10) \o <<HexDigits[(n % 10) + 1]>>

\* One item of a regular expression: a character class repeated lo..hi times.
\* "d" is [0-9], "s" is \s, anything else is that literal character.
Item(c, lo, hi) == [c |-> c, lo |-> lo, hi |-> hi]
Lit(c) == Item(c, 1, 1)
Dig == Item("d", 1, 1)

InClass(c, x) ==
    IF c = "d" THEN x \in Digits
    ELSE IF c = "s" THEN x \in {" ", "\n", "\t"}
    ELSE x = c

\* How many characters from text[i+1..] are in class c, at most hi.
RECURSIVE Greedy(_, _, _, _)
Greedy(c, text, i, hi) ==
    IF hi = 0 \/ i >= Len(text) \/ ~InClass(c, text[i + 1]) THEN 0
    ELSE 1 + Greedy(c, text, i + 1, hi - 1)

\* re match of pat[k..] at 0-based offset i: the end offset, or -1.  Greedy,
\* backing off one repetition at a time.
RECURSIVE MatchAt(_, _, _, _)
RECURSIVE BackOff(_, _, _, _, _)
MatchAt(pat, k, text, i) ==
    IF k > Len(pat) THEN i
    ELSE BackOff(pat, k, text, i, Greedy(pat[k].c, text, i, pat[k].hi))

BackOff(pat, k, text, i, n) ==
    IF n < pat[k].lo THEN -1
    ELSE LET e == MatchAt(pat, k + 1, text, i + n)
         IN  IF e >= 0 THEN e ELSE BackOff(pat, k, text, i, n - 1)

\* re.finditer(pat, text): the spans <<start, end>> of the non-overlapping
\* matches, scanning left to right from offset i.
RECURSIVE finditer(_, _, _)
finditer(pat, text, i) ==
    IF i >= Len(text) THEN <<>>
    ELSE LET e == MatchAt(pat, 1, text, i)
         IN  IF e < 0 THEN finditer(pat, text, i + 1)
             ELSE <<<<i, e>>>> \o finditer(pat, text, e)

mmss1 == <<Lit("["), Item("d", 0, 1), Dig, Lit(":"), Dig, Dig, Lit("]")>>
hhmmss1 == <<Lit("["), Dig, Dig, Lit(":"), Dig, Dig, Lit(":"), Dig, Dig, Lit("]")>>
mmss2 == <<Lit("["), Item("d", 0, 1), Dig, Lit("."), Dig, Dig, Lit("]")>>
hhmmss2 == <<Lit("["), Dig, Dig, Lit("."), Dig, Dig, Lit("."), Dig, Dig, Lit("]")>>
hhmmss_sss == <<Lit("#"), Dig, Dig, Lit(":"), Dig, Dig, Lit(":"), Dig, Dig,
                Lit("."), Item("d", 1, 3), Lit("#")>>
srt_stamp == <<Dig, Dig, Lit(":"), Dig, Dig, Lit(":"), Dig, Dig, Lit(","), Dig, Dig, Dig>>
srt == srt_stamp \o <<Lit("s"), Lit("-"), Lit("-"), Lit(">"), Lit("s")>> \o srt_stamp

\* str.find(sub): the 0-based offset of the first occurrence, or -1
find(s, sub) ==
    LET at == {i \in 0..(Len(s) - Len(sub)) : SubSeq(s, i + 1, i + Len(sub)) = sub}
    IN  IF at = {} THEN -1 ELSE CHOOSE i \in at : \A j \in at : i <= j

\* str.split(sep)
RECURSIVE split(_, _)
split(s, sep) ==
    LET i == find(s, sep)
    IN  IF i < 0 THEN <<s>>
        ELSE <<SubSeq(s, 1, i)>> \o split(SubSeq(s, i + Len(sep) + 1, Len(s)), sep)

\* msecs of a stamp split into two or three fields
FieldsMsecs(f) ==
    IF Len(f) = 2 THEN (int(f[1]) * 60 + int(f[2])) * 1000
    ELSE (int(f[1]) * 3600 + int(f[2]) * 60 + int(f[3])) * 1000

\* "adjust msecs to 1000's for 1 or 2 digit strings"
PadMsecs(m) ==
    LET m1 == IF Len(m) = 1 THEN m \o <<"0", "0">> ELSE m
    IN  IF Len(m1) = 2 THEN m1 \o <<"0">> ELSE m1

\* The body of each of the six finditer loops: msecs of one match.
BracketMsecs(text, span, sep) ==
    FieldsMsecs(split(Slice(Slice(text, span[1], span[2]), 1, span[2] - span[1] - 1), sep))

HashMsecs(text, span) ==
    LET stamp == Slice(Slice(text, span[1], span[2]), 1, span[2] - span[1] - 1)
        text_hms == split(stamp, <<":">>)
        text_secs == split(text_hms[3], <<".">>)[1]
        text_msecs == PadMsecs(split(text_hms[3], <<".">>)[2])
    IN  (int(text_hms[1]) * 3600 + int(text_hms[2]) * 60 + int(text_secs)) * 1000
            + int(text_msecs)

SrtMsecs(text, span) ==
    LET stamp == Slice(Slice(text, span[1], span[2]), 0, 12)
        s == split(stamp, <<":">>)
        s2 == split(s[3], <<",">>)
    IN  (int(s[1]) * 3600 + int(s[2]) * 60 + int(s2[1])) * 1000 + int(s2[2])

\* One finditer loop: time_pos.append([match.span()[0], msecs]) per match,
\* the stamp read as the loop of that form reads it.
Anchors(text, pat, form) ==
    LET m == finditer(pat, text, 0)
        msecs(span) == IF form = "hash" THEN HashMsecs(text, span)
                       ELSE IF form = "srt" THEN SrtMsecs(text, span)
                       ELSE BracketMsecs(text, span, <<form>>)
    IN  [i \in 1..Len(m) |-> <<m[i][1], msecs(m[i])>>]

\* sorted(time_pos, key=itemgetter(0)): stable
RECURSIVE SortedByPosition(_)
InsertByPosition(sorted, x) ==
    LET k == Cardinality({i \in 1..Len(sorted) : sorted[i][1] <= x[1]})
    IN  SubSeq(sorted, 1, k) \o <<x>> \o SubSeq(sorted, k + 1, Len(sorted))

SortedByPosition(s) ==
    IF s = <<>> THEN <<>>
    ELSE InsertByPosition(SortedByPosition(SubSeq(s, 1, Len(s) - 1)), s[Len(s)])

\* What vlc_media.get_duration() gives: the duration, -1 on an error, 0 when
\* the media was not parsed.
get_duration(probe, duration) ==
    IF probe = "ok" THEN duration ELSE IF probe = "error" THEN -1 ELSE 0

\* media_length: 0 when the lookup of the media or vlc raises.
MediaLength(probe, duration) ==
    IF probe = "raise" THEN 0
    ELSE LET media_length == get_duration(probe, duration) - 1
         IN  IF media_length = -1 THEN 0 ELSE media_length

get_transcript_timepoints(text, probe, duration) ==
    IF Len(text) = 0 THEN <<>>
    ELSE SortedByPosition(
            <<<<0, 0>>>>
            \o Anchors(text, mmss1, ":") \o Anchors(text, hhmmss1, ":")
            \o Anchors(text, mmss2, ".") \o Anchors(text, hhmmss2, ".")
            \o Anchors(text, hhmmss_sss, "hash") \o Anchors(text, srt, "srt")
            \o <<<<Len(text) - 1, MediaLength(probe, duration)>>>>)

\* Pieces of transcript text: plain words and markers of each form with the
\* milliseconds they denote.
Segments ==
    <<[chars |-> <<"a", "b", " ">>,
      kind |-> "other", ms |-> 0],
     [chars |-> <<"[", "0", "1", ":", "0", "2", "]">>,
      kind |-> "mmss", ms |-> 62000],
     [chars |-> <<"[", "1", ":", "0", "2", "]">>,
      kind |-> "mmss", ms |-> 62000],
     [chars |-> <<"[", "0", "1", ":", "0", "2", ":", "0", "3", "]">>,
      kind |-> "hhmmss", ms |-> 3723000],
     [chars |-> <<"[", "0", "2", ".", "0", "3", "]">>,
      kind |-> "other", ms |-> 0],
     [chars |-> <<"#", "0", "0", ":", "0", "1", ":", "0", "2", ".", "5", "#">>,
      kind |-> "hash", ms |-> 62500],
     [chars |-> <<"#", "0", "0", ":", "0", "1", ":", "0", "2", ".", "0", "5", "#">>,
      kind |-> "hash", ms |-> 62050],
     [chars |-> <<"#", "0", "0", ":", "0", "1", ":", "0", "2", ".", "0", "0", "5", "#">>,
      kind |-> "hash", ms |-> 62005],
     [chars |-> <<"0", "0", ":", "0", "0", ":", "0", "4", ",", "1", "0", "0", " ", "-", "-", ">", " ", "0", "0", ":", "0", "0", ":", "0", "9", ",", "6", "0", "0">>,
      kind |-> "srt", ms |-> 4100]>>

Probes == {"ok", "error", "unparsed", "raise"}
\* Length of the media in milliseconds.
Duration == 60000

RECURSIVE TextOf(_)
TextOf(segs) ==
    IF segs = <<>> THEN <<>> ELSE Segments[Head(segs)].chars \o TextOf(Tail(segs))

TimeInit ==
    /\ pc = "timepoints"
    /\ guids = <<>>
    /\ returned = <<>>
    /\ db = EmptyDb
    /\ imp = NewImport
    /\ \E segs \in SeqsUpTo(1..Len(Segments), MaxSegs), p \in Probes :
          inp = [segs |-> segs, text |-> TextOf(segs), probe |-> p,
                 duration |-> Duration]
    /\ out = <<>>

\* time_pos = self.get_transcript_timepoints(media)
TimepointsCall ==
    /\ pc = "timepoints"
    /\ out' = get_transcript_timepoints(inp.text, inp.probe, inp.duration)
    /\ pc' = "done"
    /\ UNCHANGED <<guids, returned, db, imp, inp>>

TimeNext == TimepointsCall

SpecTime == TimeInit /\ [][TimeNext]_vars

\* 0-based offset at which segment i of the text starts
RECURSIVE OffsetOf(_, _)
OffsetOf(segs, i) ==
    IF i = 1 THEN 0 ELSE OffsetOf(segs, i - 1) + Len(Segments[segs[i - 1]].chars)

\* Every marker of the forms [mm:ss], [hh:mm:ss], #hh:mm:ss.f# and SRT range
\* in the text has its anchor in the result.
MarkersAnchored ==
    \A i \in 1..Len(inp.segs) :
        Segments[inp.segs[i]].kind # "other"
            => <<OffsetOf(inp.segs, i), Segments[inp.segs[i]].ms>> \in Range(out)

OrderedByPosition ==
    \A i, j \in 1..Len(out) : i < j => out[i][1] <= out[j][1]

\* C6: for a non-empty transcript the result holds an anchor for every marker
\* ([mm:ss], [hh:mm:ss], #hh:mm:ss.f# padded to milliseconds, first stamp of
\* an SRT range), the boundary anchor (0, 0), an anchor at the final character
\* position mapped to the media duration, and is ordered by position.
C6_Timepoints ==
    (pc = "done" /\ inp.text # <<>>)
        => /\ MarkersAnchored
           /\ <<0, 0>> \in Range(out)
           /\ <<Len(inp.text) - 1, inp.duration>> \in Range(out)
           /\ OrderedByPosition

(***************************************************************************)
(* Source paths: RefiImport.name_creating_user_create_date_source_path_    *)
(* helper                                                                  *)
(***************************************************************************)
MaxPieces == 3

InternalMark == <<"i", "n", "t", "e", "r", "n", "a", "l", ":", "/">>
InternalScheme == <<"i", "n", "t", "e", "r", "n", "a", "l", ":", "/", "/">>
RelativeScheme == <<"r", "e", "l", "a", "t", "i", "v", "e", ":", "/", "/">>
AbsoluteScheme == <<"a", "b", "s", "o", "l", "u", "t", "e", ":", "/", "/">>

\* s.replace(old, new)
replace(s, old, new) == Join(new, split(s, old))

\* The helper's result; raised is an exception leaving the helper.
PathResult(name, user, date, source_path, path_type) ==
    [raised |-> FALSE, name |-> name, creating_user |-> user,
     create_date |-> date, source_path |-> source_path, path_type |-> path_type]

Raised(error) == [raised |-> TRUE, error |-> error]

\* for u in self.users: if u['guid'] == creating_user_guid: ...
RECURSIVE UserNamed(_, _, _, _)
UserNamed(users, guid, i, acc) ==
    IF i > Len(users) THEN acc
    ELSE UserNamed(users, guid, i + 1,
                   IF users[i].guid = guid THEN users[i].name ELSE acc)

\* self.folder_name: the temporary extract folder
FolderName == <<"/tmp/extract">>

NowStamp == <<"now-date", "T", "now-time", "Z">>

\* sources_name: '/sources' when the extract folder lists an entry 'sources'
SourcesName(contents) ==
    IF <<"sources">> \in contents THEN <<"/sources">> ELSE <<"/Sources">>

name_creating_user_create_date_source_path_helper(element, users, contents, base_path) ==
    LET creating_user_guid ==
            IF Get(element, "creatingUser") = None
            THEN Get(element, "modifyingUser") ELSE Get(element, "creatingUser")
        creating_user == UserNamed(users, creating_user_guid, 1, <<"default">>)
        date0 == IF Get(element, "creationDateTime") = None
                 THEN Get(element, "modifiedDateTime")
                 ELSE Get(element, "creationDateTime")
        date1 == IF date0 = None THEN NowStamp ELSE date0
        create_date == replace(replace(date1, <<"T">>, <<" ">>), <<"Z">>, <<>>)
        path_ == Get(element, "path")
        sources_name == SourcesName(contents)
        plain == Get(element, "plainTextPath")
        folder_name == FolderName
        res(sp, pt) == PathResult(Get(element, "name"), creating_user,
                                  create_date, sp, pt)
    IN  IF path_ = None
        THEN IF plain = None THEN Raised("AttributeError")
             ELSE IF Len(split(plain, InternalMark)) < 2 THEN Raised("IndexError")
             ELSE res(folder_name \o sources_name \o split(plain, InternalMark)[2],
                      "internal")
        ELSE IF find(path_, InternalScheme) = 0
        THEN res(folder_name \o sources_name \o split(path_, InternalMark)[2],
                 "internal")
        ELSE IF find(path_, RelativeScheme) = 0
        THEN IF base_path = None THEN Raised("TypeError")
             ELSE res(base_path \o split(path_, RelativeScheme)[2], "relative")
        ELSE IF find(path_, AbsoluteScheme) = 0
        THEN res(split(path_, AbsoluteScheme)[2], "absolute")
        ELSE res(<<>>, "")

\* Pieces a path attribute is made of: the scheme prefixes and name parts.
PathPieces ==
    {InternalScheme, RelativeScheme, AbsoluteScheme, <<"/">>, <<"a">>, <<"b.mp4">>}

RECURSIVE PathsOf(_)
PathsOf(n) ==
    IF n = 0 THEN {<<>>}
    ELSE LET shorter == PathsOf(n - 1)
         IN  shorter \cup {p \o q : p \in PathPieces, q \in shorter}

PathAttrs == (PathsOf(MaxPieces) \ {<<>>}) \cup {None}

PlainTextPaths == {None, InternalScheme \o <<"t.txt">>, RelativeScheme \o <<"t.txt">>}

\* Who made the source and when, as the exporting tool wrote it.
Provenances ==
    { [creatingUser |-> <<"u1">>,
       creationDateTime |-> <<"2020-01-02", "T", "03:04:05", "Z">>],
      [modifyingUser |-> <<"u2">>,
       modifiedDateTime |-> <<"2021-01-02", "T", "03:04:05", "Z">>],
      [creatingUser |-> <<"u9">>] }

KnownUsers == <<[guid |-> <<"u1">>, name |-> <<"Ann">>],
                [guid |-> <<"u2">>, name |-> <<"Bob">>]>>

\* os.listdir of the extract folder
Listings ==
    { {<<"project.qde">>} \cup l : l \in SUBSET {<<"Sources">>, <<"sources">>} }

SourceElem(path, plain, prov) ==
    Elem("VideoSource",
         [name |-> <<"v">>, guid |-> <<"g1">>]
           @@ (IF path = None THEN <<>> ELSE [path |-> path])
           @@ (IF plain = None THEN <<>> ELSE [plainTextPath |-> plain])
           @@ prov,
         None, <<>>)

PathInit ==
    /\ pc = "path"
    /\ guids = <<>>
    /\ returned = <<>>
    /\ db = EmptyDb
    /\ \E b \in {<<>>, <<"/base">>} :
          imp = [NewImport EXCEPT !.users = KnownUsers, !.base_path = b]
    /\ \E p \in PathAttrs, t \in PlainTextPaths, v \in Provenances, l \in Listings :
          inp = [element |-> SourceElem(p, t, v), contents |-> l]
    /\ out = <<>>

\* name, creating_user, create_date, source_path, path_type = self.name_...(element)
PathHelperCall ==
    /\ pc = "path"
    /\ out' = name_creating_user_create_date_source_path_helper(
                  inp.element, imp.users, inp.contents, imp.base_path)
    /\ imp' = [imp EXCEPT !.sources_name = SourcesName(inp.contents)]
    /\ pc' = "done"
    /\ UNCHANGED <<guids, returned, db, inp>>

PathNext == PathHelperCall

SpecPath == PathInit /\ [][PathNext]_vars

StartsWith(s, prefix) ==
    Len(s) >= Len(prefix) /\ SubSeq(s, 1, Len(prefix)) = prefix

After(s, prefix) == SubSeq(s, Len(prefix) + 1, Len(s))

\* The folder named by the claim: 'sources' exactly when the archive has an
\* entry of that name, 'Sources' otherwise.
SourcesFolder ==
    FolderName \o (IF <<"sources">> \in inp.contents
                   THEN <<"/sources">> ELSE <<"/Sources">>)

ResolvesTo(source_path, path_type) ==
    /\ ~out.raised
    /\ out.source_path = source_path
    /\ out.path_type = path_type

\* C8: the helper gives every source path exactly one path type by its
\* prefix: absolute://X resolves to X (absolute); internal://F, or a missing
\* path with plainTextPath internal://F, resolves to
\* <extract folder>/<sources or Sources>/F (internal); relative://X is relative.
C8_PathScheme ==
    pc = "done" =>
        LET path == Get(inp.element, "path")
            plain == Get(inp.element, "plainTextPath")
        IN  /\ (path # None /\ StartsWith(path, AbsoluteScheme))
                  => ResolvesTo(After(path, AbsoluteScheme), "absolute")
            /\ (path # None /\ StartsWith(path, InternalScheme))
                  => ResolvesTo(SourcesFolder \o <<"/">> \o After(path, InternalScheme),
                                "internal")
            /\ (path = None /\ plain # None /\ StartsWith(plain, InternalScheme))
                  => ResolvesTo(SourcesFolder \o <<"/">> \o After(plain, InternalScheme),
                                "internal")
            /\ (path # None /\ StartsWith(path, RelativeScheme))
                  => (~out.raised /\ out.path_type = "relative")
            /\ path # None
                  => (~out.raised /\ out.path_type \in {"absolute", "internal", "relative"})

(***************************************************************************)
(* Project import: RefiImport.import_project and the methods it calls.     *)
(* A run is a record [ok, db, imp, env]: the store, the importer's lists,  *)
(* the extracted archive (env.files, by path; env.contents, the listing of *)
(* the extract folder), and ok = FALSE once an exception has left a method *)
(* (nothing runs after).                                                   *)
(***************************************************************************)
\* for x in seq: run = op(run, x), stopping at an exception
ForEach(op(_, _), run0, seq) ==
    LET step(run, x) == IF run.ok THEN op(run, x) ELSE run
        f[i \in 0..Len(seq)] == IF i = 0 THEN run0 ELSE step(f[i - 1], seq[i])
    IN  f[Len(seq)]

Children(e, tag) == SelectSeq(e.kids, LAMBDA k : k.tag = tag)

Fail(run, error) == [run EXCEPT !.ok = FALSE, !.error = error]

Insert(run, table, row) == [run EXCEPT !.db[table] = Append(@, row)]

\* The last entry of a list whose guid is the one given, or absent.
Lookup(list, guid) ==
    LET hits == {i \in 1..Len(list) : list[i].guid = guid}
    IN  IF hits = {} THEN [found |-> FALSE]
        ELSE [found |-> TRUE, entry |-> list[CHOOSE i \in hits : \A j \in hits : j <= i]]

\* The first entry of a list whose guid is the one given (loops with break).
LookupFirst(list, guid) ==
    LET hits == {i \in 1..Len(list) : list[i].guid = guid}
    IN  IF hits = {} THEN [found |-> FALSE]
        ELSE [found |-> TRUE, entry |-> list[CHOOSE i \in hits : \A j \in hits : i <= j]]

parse_project_tag(run, root) ==
    [run EXCEPT !.imp.base_path = Get(root, "basePath"),
                !.imp.software_name = Get(root, "origin")]

parse_users(run, element) ==
    LET user(r, e) == [r EXCEPT !.imp.users =
                          Append(@, [name |-> Get(e, "name"), guid |-> Get(e, "guid")])]
    IN  ForEach(user, run, element.kids)

\* c.getchildren()[0] is Codes; sub_codes for each Code in it
ParseCodeBook(run, c) ==
    IF c.kids = <<>> THEN Fail(run, "IndexError")
    ELSE LET code(r, e) ==
                LET st == sub_codes(e, NULL, [db |-> r.db, codes |-> r.imp.codes,
                                              counter |-> 0])
                IN  [r EXCEPT !.db = st.db, !.imp.codes = st.codes]
         IN  ForEach(code, run, c.kids[1].kids)

ValueType(t) ==
    IF t \in {<<"Text">>, <<"Boolean">>, <<"Date">>, <<"DateTime">>} THEN <<"character">>
    ELSE IF t \in {<<"Integer">>, <<"Float">>} THEN <<"numeric">>
    ELSE t

parse_variables(run, element) ==
    LET variable(r, e) ==
            LET name == Get(e, "name")
                valuetype == ValueType(Get(e, "typeOfVariable"))
                \* e.tag is never the "project:1:0" Description: memo = d.text
                memo == IF e.kids = <<>> THEN <<>> ELSE e.kids[Len(e.kids)].text
                taken == NameTaken(r.db.attribute_type, name)
                r1 == IF taken THEN r
                      ELSE Insert(r, "attribute_type",
                                  [name |-> name, caseOrFile |-> "file",
                                   valuetype |-> valuetype, memo |-> memo])
            IN  [r1 EXCEPT !.imp.variables =
                    Append(@, [name |-> name, guid |-> Get(e, "guid"),
                               valuetype |-> valuetype, memo |-> memo])]
    IN  ForEach(variable, run, element.kids)

parse_project_description(run, element) ==
    [run EXCEPT !.db.project_memo = IF element.text = None THEN <<>> ELSE element.text]

\* import_project: the first pass over the children of Project
ParseDeclarations(run, root) ==
    LET child(r, c) ==
            IF c.tag = "Users" THEN parse_users(r, c)
            ELSE IF c.tag = "CodeBook" THEN ParseCodeBook(r, c)
            ELSE IF c.tag = "Variables" THEN parse_variables(r, c)
            ELSE IF c.tag = "Description" THEN parse_project_description(r, c)
            ELSE r
    IN  ForEach(child, parse_project_tag(run, root), root.kids)

\* VariableRef and value of a VariableValue element: the last of each
VariableRefOf(vv) ==
    LET refs == Children(vv, "VariableRef")
    IN  IF refs = <<>> THEN None ELSE Get(refs[Len(refs)], "targetGUID")

ValueTags ==
    {"TextValue", "BooleanValue", "IntegerValue", "FloatValue", "DateValue",
     "DateTimeValue"}

ValueOf(vv) ==
    LET vals == SelectSeq(vv.kids, LAMBDA k : k.tag \in ValueTags)
    IN  IF vals = <<>> THEN None ELSE vals[Len(vals)].text

parse_case_for_file_variables(run, e_case) ==
    LET refs == Children(e_case, "SourceRef")
        file_guid == IF refs = <<>> THEN None ELSE Get(refs[Len(refs)], "targetGUID")
        value(r, el) ==
            LET var_guid == VariableRefOf(el)
                attr == LookupFirst(r.imp.variables, var_guid)
                attr_val == [file_guid |-> file_guid, var_guid |-> var_guid,
                             value |-> ValueOf(el)]
            IN  [r EXCEPT !.imp.file_vars =
                    Append(@, IF attr.found THEN attr_val @@ [name |-> attr.entry.name]
                              ELSE attr_val)]
    IN  IF Get(e_case, "name") # None THEN run
        ELSE IF file_guid = None \/ Len(refs) # 1 THEN run
        ELSE ForEach(value, run, Children(e_case, "VariableValue"))

parse_cases_for_file_variables(run, root) ==
    LET cases(r, el) == ForEach(parse_case_for_file_variables, r, el.kids)
    IN  ForEach(cases, [run EXCEPT !.imp.file_vars = <<>>], Children(root, "Cases"))

\* v['name'] raises KeyError for a file variable whose VariableRef matched
\* no declared variable.
fill_file_attribute_values(run) ==
    LET row(r, sv) ==
            IF sv[2].file_guid # sv[1].guid THEN r
            ELSE IF "name" \notin DOMAIN sv[2] THEN Fail(r, "KeyError")
            ELSE Insert(r, "attribute",
                        [name |-> sv[2].name, attr_type |-> "file",
                         value |-> sv[2].value, id |-> sv[1].id])
        pairs == [k \in 1..(Len(run.imp.sources) * Len(run.imp.file_vars)) |->
                    <<run.imp.sources[((k - 1) \div Len(run.imp.file_vars)) + 1],
                      run.imp.file_vars[((k - 1) % Len(run.imp.file_vars)) + 1]>>]
    IN  IF run.imp.file_vars = <<>> THEN run ELSE ForEach(row, run, pairs)

\* creating_user and create_date of a selection or note, as each method
\* reads them; create_date.replace on None raises.
SelectionProvenance(run, e) ==
    LET date0 == IF Get(e, "creationDateTime") = None
                 THEN Get(e, "modifiedDateTime") ELSE Get(e, "creationDateTime")
        user_guid == IF Get(e, "creatingUser") = None
                     THEN Get(e, "modifyingUser") ELSE Get(e, "creatingUser")
    IN  IF date0 = None THEN Raised("AttributeError")
        ELSE [raised |-> FALSE,
              create_date |-> replace(replace(date0, <<"T">>, <<" ">>), <<"Z">>, <<>>),
              creating_user |-> UserNamed(run.imp.users, user_guid, 1, <<"default">>)]

\* unique(cid, fid, pos0, pos1, owner) on code_text; NULLs never clash
CodeTextClash(tbl, row) ==
    /\ row.cid # NULL
    /\ \E i \in 1..Len(tbl) :
          /\ tbl[i].cid = row.cid /\ tbl[i].fid = row.fid
          /\ tbl[i].pos0 = row.pos0 /\ tbl[i].pos1 = row.pos1
          /\ tbl[i].owner = row.owner

\* cur.execute("insert into code_text ...") with no exception handler
insert_code_text(run, row) ==
    IF CodeTextClash(run.db.code_text, row) THEN Fail(run, "IntegrityError")
    ELSE Insert(run, "code_text", row)

\* cid of the imported code a CodeRef names, None (NULL) when it names none
CodeIdOf(run, coding) ==
    LET c == Lookup(run.imp.codes, Get(coding.kids[1], "targetGUID"))
    IN  IF c.found THEN c.entry.cid ELSE NULL

\* The last Description child with text, else ""
MemoOf(element) ==
    LET d == SelectSeq(element.kids, LAMBDA k : k.tag = "Description" /\ k.text # None)
    IN  IF d = <<>> THEN <<>> ELSE d[Len(d)].text

_load_codings_for_text(run, source, element) ==
    LET load(prov, pos0, pos1, memo) ==
            LET coding(r, e) ==
                    IF e.kids = <<>> THEN Fail(r, "IndexError")
                    ELSE insert_code_text(r,
                            [cid |-> CodeIdOf(r, e), fid |-> source.id,
                             seltext |-> Slice(source.fulltext, pos0, pos1),
                             pos0 |-> pos0, pos1 |-> pos1,
                             owner |-> prov.creating_user, memo |-> memo])
            IN  IF prov.raised THEN Fail(run, "AttributeError")
                ELSE IF Children(element, "Coding") # <<>>
                THEN ForEach(coding, run, Children(element, "Coding"))
                ELSE Insert(run, "annotation",
                            [fid |-> source.id, pos0 |-> pos0, pos1 |-> pos1,
                             memo |-> memo, owner |-> prov.creating_user])
    IN  IF ~Has(element, "startPosition") \/ ~Has(element, "endPosition")
        THEN Fail(run, "TypeError")
        ELSE load(SelectionProvenance(run, element), int(Get(element, "startPosition")),
                  int(Get(element, "endPosition")), MemoOf(element))

\* str.strip()
RECURSIVE strip(_)
strip(s) ==
    LET ws == {" ", "\n", "\t", "\r"}
    IN  IF s = <<>> THEN s
        ELSE IF s[1] \in ws THEN strip(Tail(s))
        ELSE IF s[Len(s)] \in ws THEN strip(SubSeq(s, 1, Len(s) - 1))
        ELSE s

parse_variable_value(run, element, id_, creating_user) ==
    LET known == SelectSeq(Children(element, "VariableRef"),
                     LAMBDA k : LookupFirst(run.imp.variables, Get(k, "targetGUID")).found)
        var_name == IF known = <<>> THEN <<>>
                    ELSE LookupFirst(run.imp.variables,
                                     Get(known[Len(known)], "targetGUID")).entry.name
        vals == SelectSeq(element.kids, LAMBDA k : k.tag \in ValueTags /\ k.text # None)
        value == IF vals = <<>> THEN <<>> ELSE strip(vals[Len(vals)].text)
    IN  Insert(run, "attribute",
               [name |-> var_name, attr_type |-> "file", value |-> value, id |-> id_])

\* Whether the bytes up to the first bare \n hold a \r\n pair.
RECURSIVE HasWindowsEnding(_, _)
HasWindowsEnding(bytes, i) ==
    IF i > Len(bytes) THEN FALSE
    ELSE IF bytes[i] = "\n" THEN FALSE
    ELSE IF bytes[i] = "\r"
    THEN IF i + 1 <= Len(bytes) /\ bytes[i + 1] = "\n" THEN TRUE
         ELSE HasWindowsEnding(bytes, i + 2)
    ELSE HasWindowsEnding(bytes, i + 1)

\* open(path, encoding='utf-8').read(): \r\n and \r are read as \n; a byte
\* order mark stays in the text as one character.
RECURSIVE ReadText(_)
ReadText(bytes) ==
    IF bytes = <<>> THEN <<>>
    ELSE IF bytes[1] = "\r"
    THEN <<"\n">> \o ReadText(IF Len(bytes) > 1 /\ bytes[2] = "\n"
                              THEN SubSeq(bytes, 3, Len(bytes)) ELSE Tail(bytes))
    ELSE <<bytes[1]>> \o ReadText(Tail(bytes))

Atlas == <<"A", "T", "L", "A", "S">>

\* fulltext as stored: with a Windows line ending in the first line (and
\* not an ATLAS.ti project) every \n of the text read becomes "\n ".
FullText(bytes, software_name) ==
    IF HasWindowsEnding(bytes, 1) /\ find(software_name, Atlas) < 0
    THEN replace(ReadText(bytes), <<"\n">>, <<"\n", " ">>)
    ELSE ReadText(bytes)

PathHelper(run, element) ==
    name_creating_user_create_date_source_path_helper(
        element, run.imp.users, run.env.contents, run.imp.base_path)

\* The last Description child's text (None for an empty one), else ""
DescriptionText(element) ==
    LET d == Children(element, "Description")
    IN  IF d = <<>> THEN <<>> ELSE d[Len(d)].text

InsertSource(run, name, fulltext, mediapath, memo, owner, av_text_id) ==
    Insert(run, "source",
           [id |-> NextId(run.db.source, "id"), name |-> name, fulltext |-> fulltext,
            mediapath |-> mediapath, memo |-> memo, owner |-> owner,
            av_text_id |-> av_text_id])

Register(run, element, id_, name, fulltext, mediapath) ==
    [run EXCEPT !.imp.sources =
        Append(@, [guid |-> Get(element, "guid"), id |-> id_, name |-> name,
                   fulltext |-> fulltext, mediapath |-> mediapath])]

load_text_source(run, element, pdf_rep_name, pdf_rep_date) ==
    LET load(h, name, fulltext, id_) ==
            LET ext == split(h.source_path, <<".">>)
                coding(r, e) ==
                    _load_codings_for_text(r, [id |-> id_, fulltext |-> fulltext], e)
                noteref(r, e) == [r EXCEPT !.imp.annotations =
                                     Append(@, [NoteRef |-> Get(e, "targetGUID"),
                                                TextSource |-> Get(element, "guid")])]
                value(r, e) == parse_variable_value(r, e, id_, h.creating_user)
            IN  ForEach(value,
                    ForEach(noteref,
                        ForEach(coding,
                            Register(
                                InsertSource(run, name \o <<".">> \o ext[Len(ext)],
                                             fulltext, None, DescriptionText(element),
                                             h.creating_user, NULL),
                                element, id_, name, fulltext, None),
                            Children(element, "PlainTextSelection")),
                        Children(element, "NoteRef")),
                    Children(element, "VariableValue"))
        open(h) ==
            IF h.raised THEN Fail(run, h.error)
            ELSE IF h.source_path \notin DOMAIN run.env.files
            THEN Fail(run, "FileNotFoundError")
            ELSE IF run.imp.software_name = None THEN Fail(run, "TypeError")
            ELSE load(h, IF pdf_rep_name # <<>> THEN pdf_rep_name ELSE h.name,
                      FullText(run.env.files[h.source_path], run.imp.software_name),
                      NextId(run.db.source, "id"))
    IN  open(PathHelper(run, element))

\* media_path of a picture, audio or video source
MediaPath(run, h, folder, prefix) ==
    IF h.path_type = "absolute" THEN prefix \o h.source_path
    ELSE IF h.path_type = "relative" THEN prefix \o run.imp.base_path \o h.source_path
    ELSE folder \o h.name

_load_codings_for_picture(run, id_, element) ==
    LET load(prov) ==
            LET coding(r, e) ==
                    IF e.kids = <<>> THEN Fail(r, "IndexError")
                    ELSE Insert(r, "code_image",
                            [id |-> id_, x1 |-> int(element.a.firstX),
                             y1 |-> int(element.a.firstY),
                             width |-> int(element.a.secondX) - int(element.a.firstX),
                             height |-> int(element.a.secondY) - int(element.a.firstY),
                             cid |-> CodeIdOf(r, e), memo |-> Get(element, "name"),
                             owner |-> prov.creating_user])
            IN  IF prov.raised THEN Fail(run, "AttributeError")
                ELSE ForEach(coding, run, Children(element, "Coding"))
    IN  IF \E k \in {"firstX", "firstY", "secondX", "secondY"} : ~Has(element, k)
        THEN Fail(run, "TypeError")
        ELSE load(SelectionProvenance(run, element))

load_picture_source(run, element) ==
    LET load(h, media_path, id_) ==
            LET child(r, e) ==
                    IF e.tag = "PictureSelection" THEN _load_codings_for_picture(r, id_, e)
                    ELSE IF e.tag = "VariableValue"
                    THEN parse_variable_value(r, e, id_, h.creating_user)
                    ELSE r
            IN  ForEach(child,
                        Register(InsertSource(run, h.name, None, media_path,
                                              DescriptionText(element), h.creating_user,
                                              NULL),
                                 element, id_, h.name, <<>>, media_path),
                        element.kids)
        open(h) ==
            IF h.raised THEN Fail(run, h.error)
            ELSE load(h, MediaPath(run, h, <<"/images/">>, <<"images:">>),
                      NextId(run.db.source, "id"))
    IN  open(PathHelper(run, element))

parse_transcript_with_codings_and_syncpoints(run, av_name, av_id, element) ==
    LET syncpoints == Children(element, "SyncPoint")
        \* pos = int(s['pos']) + 1 of the last sync point with the guid, else 0
        PosOf(guid) ==
            LET hits == {i \in 1..Len(syncpoints) : Get(syncpoints[i], "guid") = guid}
            IN  IF hits = {} THEN 0
                ELSE int(syncpoints[CHOOSE i \in hits :
                                        \A j \in hits : j <= i].a.position) + 1
        \* text[0:6] == "﻿" never holds: the mark is one character
        load(prov, name, text, fid) ==
            LET described == SelectSeq(Children(element, "Description"),
                                       LAMBDA k : k.text # None)
                memo == <<"Name: ">> \o name \o <<"\n">>
                            \o Concat([i \in 1..Len(described) |-> described[i].text])
                codings(r, e, pos0, pos1, smemo) ==
                    LET coding(r2, ee) ==
                            LET value(r3, c) ==
                                    IF c.guid # Get(ee.kids[1], "targetGUID") THEN r3
                                    ELSE insert_code_text(r3,
                                            [cid |-> c.cid, fid |-> fid,
                                             seltext |-> Slice(text, pos0, pos1),
                                             pos0 |-> pos0, pos1 |-> pos1,
                                             owner |-> prov.creating_user,
                                             memo |-> smemo])
                            IN  IF ee.kids = <<>> THEN Fail(r2, "IndexError")
                                ELSE ForEach(value, r2, r2.imp.codes)
                    IN  ForEach(coding, r, Children(e, "Coding"))
                \* memo = str(ee.text) of the selection's last Description
                selection(r, e) ==
                    codings(r, e, PosOf(Get(e, "fromSyncPoint")),
                            PosOf(Get(e, "toSyncPoint")), DescriptionText(e))
            IN  ForEach(selection,
                        InsertSource(run, av_name \o <<".", "txt">>, text, None, memo,
                                     prov.creating_user, av_id),
                        Children(element, "TranscriptSelection"))
        open(prov, plain, name, source_path) ==
            IF prov.raised THEN Fail(run, "AttributeError")
            ELSE IF plain = None THEN Fail(run, "TypeError")
            ELSE IF Slice(plain, 0, 11) # InternalScheme THEN run
            ELSE IF name = None THEN Fail(run, "TypeError")
            ELSE IF source_path \notin DOMAIN run.env.files
            THEN Fail(run, "FileNotFoundError")
            ELSE load(prov, name, ReadText(run.env.files[source_path]),
                      NextId(run.db.source, "id"))
        path(plain) ==
            open(SelectionProvenance(run, element), plain, Get(element, "name"),
                 FolderName \o run.imp.sources_name \o <<"/">>
                     \o Slice(plain, 11, Len(plain)))
    IN  path(Get(element, "plainTextPath"))

load_codings_for_audio_video(run, id_, element) ==
    LET load(user_guid, memo) ==
            LET coding(r, e) ==
                    IF e.kids = <<>> THEN Fail(r, "IndexError")
                    ELSE Insert(r, "code_av",
                            [id |-> id_, pos0 |-> int(element.a.begin),
                             pos1 |-> int(element.a.end), cid |-> CodeIdOf(r, e),
                             memo |-> memo,
                             owner |-> UserNamed(r.imp.users, user_guid, 1,
                                                 <<"default">>)])
            IN  ForEach(coding, run, Children(element, "Coding"))
    IN  IF ~Has(element, "begin") \/ ~Has(element, "end") THEN Fail(run, "TypeError")
        ELSE load(IF Get(element, "creatingUser") = None
                  THEN Get(element, "modifyingUser") ELSE Get(element, "creatingUser"),
                  IF DescriptionText(element) = None THEN <<>>
                  ELSE DescriptionText(element))

\* load_audio_source and load_video_source: the same steps on /audio/ and
\* audio:, /video/ and video:
LoadMediaSource(run, element, kind, selection) ==
    LET load(h, media_path, id_) ==
            LET transcript(r, e) ==
                    parse_transcript_with_codings_and_syncpoints(r, h.name, id_, e)
                transcripts(r1) ==
                    IF Children(element, "Transcript") # <<>>
                    THEN ForEach(transcript, r1, Children(element, "Transcript"))
                    ELSE InsertSource(r1, h.name \o <<".", "transcribed">>, <<>>, <<>>, <<>>,
                                      h.creating_user, NULL)
                child(r, e) ==
                    IF e.tag = selection THEN load_codings_for_audio_video(r, id_, e)
                    ELSE IF e.tag = "VariableValue"
                    THEN parse_variable_value(r, e, id_, h.creating_user)
                    ELSE r
            IN  ForEach(child,
                        transcripts(
                            Register(InsertSource(run, h.name, None, media_path,
                                                  DescriptionText(element),
                                                  h.creating_user, NULL),
                                     element, id_, h.name, <<>>, media_path)),
                        element.kids)
        open(h) ==
            IF h.raised THEN Fail(run, h.error)
            ELSE load(h, MediaPath(run, h, <<"/", kind, "/">>, <<kind, ":">>),
                      NextId(run.db.source, "id"))
    IN  open(PathHelper(run, element))

load_pdf_source(run, element) ==
    LET load(h, rep) ==
            IF h.raised THEN Fail(run, h.error)
            ELSE IF rep = <<>> THEN run
            ELSE load_text_source(run, rep[1], h.name, h.create_date)
    IN  load(PathHelper(run, element), Children(element, "Representation"))

parse_sources(run, element) ==
    LET source(r, e) ==
            IF e.tag = "TextSource" THEN load_text_source(r, e, <<>>, <<>>)
            ELSE IF e.tag = "PictureSource" THEN load_picture_source(r, e)
            ELSE IF e.tag = "AudioSource"
            THEN LoadMediaSource(r, e, "audio", "AudioSelection")
            ELSE IF e.tag = "VideoSource"
            THEN LoadMediaSource(r, e, "video", "VideoSelection")
            ELSE IF e.tag = "PDFSource" THEN load_pdf_source(r, e)
            ELSE r
    IN  ForEach(source, run, element.kids)

insert_annotation(run, source_guid, element) ==
    LET modifier == Lookup(run.imp.users, Get(element, "modifyingUser"))
        creator == Lookup(run.imp.users, Get(element, "creatingUser"))
        owner == IF modifier.found THEN modifier.entry.name
                 ELSE IF creator.found THEN creator.entry.name
                 ELSE <<"codername">>
        content == Children(element, "PlainTextContent")
        memo == IF content = <<>> THEN <<>> ELSE content[Len(content)].text
        sel == Children(element, "PlainTextSelection")
        last == sel[Len(sel)]
        source == Lookup(run.imp.sources, source_guid)
    IN  IF sel = <<>> THEN run
        ELSE IF ~Has(last, "startPosition") \/ ~Has(last, "endPosition") \/ memo = None
        THEN run
        ELSE IF ~source.found THEN run
        ELSE Insert(run, "annotation",
                    [fid |-> source.entry.id, pos0 |-> int(last.a.startPosition),
                     pos1 |-> int(last.a.endPosition), memo |-> memo, owner |-> owner])

parse_notes(run, element) ==
    LET note(r, e) ==
            LET prov == SelectionProvenance(r, e)
                refs == {i \in 1..Len(r.imp.annotations) :
                            r.imp.annotations[i].NoteRef = Get(e, "guid")}
                first == r.imp.annotations[CHOOSE i \in refs : \A j \in refs : i <= j]
                plain == Get(e, "plainTextPath")
                path_ == FolderName \o r.imp.sources_name \o split(plain, InternalMark)[2]
                jentry == IF path_ \in DOMAIN r.env.files
                          THEN ReadText(r.env.files[path_]) ELSE <<>>
            IN  IF prov.raised THEN Fail(r, "AttributeError")
                ELSE IF refs # {} THEN insert_annotation(r, first.TextSource, e)
                ELSE IF plain = None THEN r
                ELSE IF Len(split(plain, InternalMark)) < 2 THEN Fail(r, "IndexError")
                ELSE Insert(r, "journal",
                            [name |-> Get(e, "name"), jentry |-> jentry,
                             owner |-> prov.creating_user])
    IN  ForEach(note, run, element.kids)

parse_cases(run, element) ==
    LET case(r, e) ==
            LET name == Get(e, "name")
                \* the insert is in try/except: a failing insert leaves caseid None
                clash == NameTaken(r.db.cases, name)
                caseid == IF clash THEN NULL ELSE NextId(r.db.cases, "caseid")
                \* d.tag is never the "project:1:0" Description: memo stays ""
                r1 == IF clash THEN r
                      ELSE [Insert(r, "cases", [caseid |-> caseid, name |-> name,
                                                memo |-> <<>>])
                              EXCEPT !.imp.cases =
                                  Append(@, [name |-> name, guid |-> Get(e, "guid"),
                                             caseid |-> caseid])]
                value(r2, vv) ==
                    LET attr == Lookup(r2.imp.variables, VariableRefOf(vv))
                    IN  Insert(r2, "attribute",
                               [name |-> IF attr.found THEN attr.entry.name ELSE <<>>,
                                attr_type |-> "case", value |-> ValueOf(vv),
                                id |-> caseid])
                r3 == ForEach(value, r1, Children(e, "VariableValue"))
                case_vars == UNION { { Get(ref, "targetGUID") :
                                         ref \in Range(Children(vv, "VariableRef")) } :
                                     vv \in Range(Children(e, "VariableValue")) }
                names == { v.name : v \in { w \in Range(r3.imp.variables) :
                                              w.guid \in case_vars } }
            IN  IF name = None THEN r
                ELSE [r3 EXCEPT !.db.attribute_type =
                        [i \in 1..Len(@) |->
                            IF @[i].name \in names
                            THEN [@[i] EXCEPT !.caseOrFile = "case"] ELSE @[i]]]
    IN  ForEach(case, run, element.kids)

clean_up_case_codes_and_case_text(run) ==
    LET \* (case, code) pairs in the order of the two loops
        pairs == [k \in 1..(Len(run.imp.cases) * Len(run.imp.codes)) |->
                    <<run.imp.cases[((k - 1) \div Len(run.imp.codes)) + 1],
                      run.imp.codes[((k - 1) % Len(run.imp.codes)) + 1]>>]
        move(r, p) ==
            IF p[1].guid # p[2].guid THEN r
            ELSE LET texts == SelectSeq(r.db.code_text, LAMBDA t : t.cid = p[2].cid)
                 IN  [r EXCEPT
                        !.db.code_name = SelectSeq(@, LAMBDA c : c.cid # p[2].cid),
                        !.db.code_text = SelectSeq(@, LAMBDA t : t.cid # p[2].cid),
                        !.db.case_text = @ \o
                            [i \in 1..Len(texts) |->
                                [caseid |-> p[1].caseid, fid |-> texts[i].fid,
                                 pos0 |-> texts[i].pos0, pos1 |-> texts[i].pos1,
                                 owner |-> texts[i].owner, memo |-> texts[i].memo]]]
    IN  IF run.imp.codes = <<>> THEN run ELSE ForEach(move, run, pairs)

parse_set(run, element) ==
    LET name == Get(element, "name")
        d == Children(element, "Description")
        memo == IF d = <<>> \/ d[1].text = None THEN <<>> ELSE d[1].text
        members == Children(element, "MemberSource")
        \* ids of the imported sources each MemberSource names, in order
        hits(m) == SelectSeq(run.imp.sources, LAMBDA x : x.guid = Get(m, "targetGUID"))
        set_sources == Concat([i \in 1..Len(members) |->
                          [j \in 1..Len(hits(members[i])) |-> hits(members[i])[j].id]])
        row(r, id_) == Insert(r, "attribute", [name |-> name, attr_type |-> "file",
                                               value |-> name, id |-> id_])
    IN  IF set_sources = <<>> \/ NameTaken(run.db.attribute_type, name) THEN run
        ELSE ForEach(row,
                     Insert(run, "attribute_type",
                            [name |-> name, caseOrFile |-> "file",
                             valuetype |-> <<"character">>, memo |-> memo]),
                     set_sources)

parse_sets(run, element) == ForEach(parse_set, run, Children(element, "Set"))

(***************************************************************************)
(* import_project, one action per phase.  pc is the phase about to run,    *)
(* "end" after the summary, "aborted" when an exception left the method.   *)
(* out.tmp: the temporary extract folder exists.                           *)
(***************************************************************************)
Run == [ok |-> TRUE, error |-> "", db |-> db, imp |-> imp,
        env |-> [files |-> inp.files, contents |-> inp.contents]]

Phase(p, next, run) ==
    /\ pc = p
    /\ db' = run.db
    /\ imp' = run.imp
    /\ pc' = IF run.ok THEN next ELSE "aborted"
    /\ out' = [out EXCEPT !.tmp = TRUE, !.summary = FALSE, !.error = run.error]
    /\ UNCHANGED <<guids, returned, inp>>

OverChildren(op(_, _), tag) == ForEach(op, Run, Children(inp.root, tag))

\* A single pass over the children of Project in document order that loads
\* the sources where it meets them: what import_project would do without its
\* separate loops.
ImportInDocumentOrder ==
    LET child(r, c) ==
            IF c.tag = "Users" THEN parse_users(r, c)
            ELSE IF c.tag = "CodeBook" THEN ParseCodeBook(r, c)
            ELSE IF c.tag = "Variables" THEN parse_variables(r, c)
            ELSE IF c.tag = "Description" THEN parse_project_description(r, c)
            ELSE IF c.tag = "Sources" THEN parse_sources(r, c)
            ELSE r
    IN  Phase("declarations", "file_vars",
              ForEach(child,
                      parse_project_tag(
                          [Run EXCEPT !.imp.sources_name = SourcesName(inp.contents)],
                          inp.root),
                      inp.root.kids))

\* Extract, list the Sources folder (which must exist), then users,
\* codebook, variables and project memo.
ImportDeclarations ==
    Phase("declarations", "file_vars",
          IF <<"Sources">> \notin inp.contents /\ <<"sources">> \notin inp.contents
          THEN Fail(Run, "FileNotFoundError")
          ELSE ParseDeclarations(
                   [Run EXCEPT !.imp.sources_name = SourcesName(inp.contents)],
                   inp.root))

ImportFileVariables ==
    Phase("file_vars", "sources", parse_cases_for_file_variables(Run, inp.root))

ImportSources == Phase("sources", "notes", OverChildren(parse_sources, "Sources"))

ImportNotes == Phase("notes", "fill", OverChildren(parse_notes, "Notes"))

ImportFillFileAttributes == Phase("fill", "cases", fill_file_attribute_values(Run))

ImportCases == Phase("cases", "cleanup", OverChildren(parse_cases, "Cases"))

ImportCleanUp == Phase("cleanup", "sets", clean_up_case_codes_and_case_text(Run))

ImportSets == Phase("sets", "wrapup", OverChildren(parse_sets, "Sets"))

\* shutil.rmtree(self.folder_name) and the closing message
ImportWrapUp ==
    /\ pc = "wrapup"
    /\ out' = [out EXCEPT !.tmp = FALSE, !.summary = TRUE]
    /\ pc' = "end"
    /\ UNCHANGED <<guids, returned, db, imp, inp>>

ImportNext ==
    \/ ImportDeclarations
    \/ ImportFileVariables
    \/ ImportSources
    \/ ImportNotes
    \/ ImportFillFileAttributes
    \/ ImportCases
    \/ ImportCleanUp
    \/ ImportSets
    \/ ImportWrapUp

(***************************************************************************)
(* Project documents handed to import_project                              *)
(***************************************************************************)
MaxSelections == 2

DateTime == <<"2020-01-02", "T", "03:04:05", "Z">>
Stamped == [creatingUser |-> <<"u1">>, creationDateTime |-> DateTime]

TextEl(tag, text) == Elem(tag, <<>>, text, <<>>)
RefEl(tag, guid) == Elem(tag, [targetGUID |-> guid], None, <<>>)
CodingEl(code) == Elem("Coding", [guid |-> <<"k1">>], None, <<RefEl("CodeRef", code)>>)
ValueEl(var, text) ==
    Elem("VariableValue", <<>>, None, <<RefEl("VariableRef", var), TextEl("TextValue", text)>>)

\* Codes A (c1) and B (c2), variables Age (v1) and Sex (v2), user Ann (u1);
\* cX, vX and sX are GUIDs of nothing in the document.
DeclarationEls ==
    <<Elem("Users", <<>>, None,
           <<Elem("User", [guid |-> <<"u1">>, name |-> <<"Ann">>], None, <<>>)>>),
      Elem("CodeBook", <<>>, None,
           <<Elem("Codes", <<>>, None,
                  <<CodeElem(<<"A">>, <<"c1">>, <<"true">>, None, <<>>),
                    CodeElem(<<"B">>, <<"c2">>, <<"true">>, None, <<>>)>>)>>),
      Elem("Variables", <<>>, None,
           <<Elem("Variable", [guid |-> <<"v1">>, name |-> <<"Age">>,
                               typeOfVariable |-> <<"Integer">>], None, <<>>),
             Elem("Variable", [guid |-> <<"v2">>, name |-> <<"Sex">>,
                               typeOfVariable |-> <<"Text">>], None, <<>>)>>)>>

InternalPath(file) == InternalScheme \o file
Extracted(file) == FolderName \o <<"/Sources", "/">> \o file

TextSelections ==
    { Elem("PlainTextSelection",
           [guid |-> <<"p1">>, startPosition |-> str(x[1]),
            endPosition |-> str(x[2])] @@ Stamped,
           None, <<CodingEl(x[3])>>) :
        x \in {<<0, 2, <<"c1">>>>, <<1, 4, <<"c2">>>>, <<0, 2, <<"cX">>>>} }

\* The text source s1 and its plain text file, which may be missing.
TextBytes == <<"a", "b", "\n", "c", "d">>

TextSources ==
    { [els |-> <<Elem("TextSource",
                      [guid |-> <<"s1">>, name |-> <<"doc">>,
                       plainTextPath |-> InternalPath(<<"s1", ".", "txt">>)] @@ Stamped,
                      None, sels)>>,
       files |-> f] :
        sels \in SeqsUpTo(TextSelections, MaxSelections),
        f \in {<<>>, Extracted(<<"s1", ".", "txt">>) :> TextBytes} }

TranscriptEl(sels) ==
    Elem("Transcript",
         [guid |-> <<"t1">>, name |-> <<"a.txt">>,
          plainTextPath |-> InternalPath(<<"t1", ".", "txt">>)] @@ Stamped,
         None,
         <<Elem("SyncPoint", [guid |-> <<"y1">>, position |-> <<"0">>,
                              timeStamp |-> <<"0">>],
                None, <<>>),
           Elem("SyncPoint", [guid |-> <<"y2">>, position |-> <<"2">>,
                              timeStamp |-> <<"9", "0", "0">>],
                None, <<>>)>>
         \o [i \in 1..Len(sels) |->
               Elem("TranscriptSelection",
                    [guid |-> <<"p2">>, fromSyncPoint |-> <<"y1">>,
                     toSyncPoint |-> <<"y2">>],
                    None, <<CodingEl(sels[i])>>)])

MediaEl(tag, name, file, kids) ==
    Elem(tag, [guid |-> <<"s2">>, name |-> name, path |-> InternalPath(file)] @@ Stamped,
         None, kids)

\* The second source of the document, if any, with the files it comes with.
OtherSources ==
    { [els |-> <<>>, files |-> <<>>] }
    \cup { [els |-> <<MediaEl("PictureSource", <<"pic.png">>, <<"s2", ".", "png">>,
                  <<Elem("PictureSelection",
                         [guid |-> <<"p3">>, firstX |-> <<"1">>, firstY |-> <<"2">>,
                          secondX |-> <<"4">>, secondY |-> <<"6">>] @@ Stamped,
                         None, <<CodingEl(c)>>)>>)>>,
            files |-> <<>>] : c \in {<<"c1">>, <<"cX">>} }
    \cup { [els |-> <<MediaEl("AudioSource", <<"a.mp3">>, <<"s2", ".", "mp3">>,
                              <<TranscriptEl(sels)>>)>>,
            files |-> f] :
              sels \in {<<<<"c1">>>>, <<<<"c1">>, <<"c1">>>>, <<<<"cX">>, <<"c2">>>>},
              f \in {<<>>, Extracted(<<"t1", ".", "txt">>) :> TextBytes} }
    \cup { [els |-> <<MediaEl("VideoSource", <<"v.mp4">>, <<"s2", ".", "mp4">>,
                  <<Elem("VideoSelection",
                         [guid |-> <<"p4">>, begin |-> <<"1", "0", "0">>,
                          end |-> <<"2", "0", "0">>] @@ Stamped,
                         None, <<CodingEl(c)>>)>>)>>,
            files |-> <<>>] : c \in {<<"c2">>, <<"cX">>} }
    \cup { [els |-> <<MediaEl("PDFSource", <<"p.pdf">>, <<"s2", ".", "pdf">>,
                  <<Elem("Representation",
                         [guid |-> <<"s3">>, name |-> <<"rep">>,
                          plainTextPath |-> InternalPath(<<"s3", ".", "txt">>)] @@ Stamped,
                         None, <<>>)>>)>>,
            files |-> Extracted(<<"s3", ".", "txt">>) :> TextBytes] }

CaseEl(attrs, values, refs) ==
    Elem("Case", attrs, None,
         values \o [i \in 1..Len(refs) |-> RefEl("SourceRef", refs[i])])

\* The children of Cases: a named case, or a Case without a name that
\* carries the variables of the sources its SourceRefs name, or both, with
\* the variable Age in each, or a named case that has the GUID of code A.
CaseSets ==
    { <<>> }
    \cup { <<CaseEl([guid |-> <<"c1">>, name |-> <<"Bo">>], <<>>, <<>>)>> }
    \cup { <<CaseEl([guid |-> <<"k1">>, name |-> <<"Bo">>],
                    <<ValueEl(<<"v1">>, <<"30">>)>>, <<>>),
              CaseEl([guid |-> <<"k2">>],
                     <<ValueEl(<<"v1">>, <<"30">>), ValueEl(<<"v2">>, <<"f">>)>>,
                     <<<<"s1">>>>)>> }
    \cup { <<CaseEl([guid |-> <<"k1">>, name |-> <<"Bo">>],
                    <<ValueEl(v, <<"30">>)>>, <<>>)>> : v \in {<<"v1">>, <<"vX">>} }
    \cup { <<CaseEl([guid |-> <<"k2">>],
                    <<ValueEl(<<"v1">>, <<"30">>), ValueEl(v, <<"f">>)>>, refs)>> :
              v \in {<<"v2">>, <<"vX">>},
              refs \in {<<>>, <<<<"s1">>>>, <<<<"s2">>>>, <<<<"sX">>>>,
                        <<<<"s1">>, <<"s2">>>>} }

SetEl(members) ==
    Elem("Set", [guid |-> <<"e1">>, name |-> <<"Group">>], None,
         [i \in 1..Len(members) |-> RefEl("MemberSource", members[i])])

\* A Set that has the name of the variable Age, with the text source in it
AgeSet ==
    Elem("Set", [guid |-> <<"e2">>, name |-> <<"Age">>], None,
         <<RefEl("MemberSource", <<"s1">>)>>)

JournalNote ==
    Elem("Note", [guid |-> <<"n2">>, name |-> <<"memo">>,
                  plainTextPath |-> InternalPath(<<"n2", ".", "txt">>)] @@ Stamped,
         None, <<>>)

AnnotationNote ==
    Elem("Note", [guid |-> <<"n1">>] @@ Stamped, None,
         <<TextEl("PlainTextContent", <<"remark">>),
           Elem("PlainTextSelection",
                [guid |-> <<"p5">>, startPosition |-> <<"0">>, endPosition |-> <<"1">>],
                None, <<>>)>>)

\* What else the document holds: children added to the text source, the
\* Notes, the Sets, and the note files.
Extras ==
    { [textkids |-> <<>>, notes |-> <<>>, sets |-> <<>>, files |-> <<>>],
      [textkids |-> <<>>, notes |-> <<>>, sets |-> <<AgeSet>>, files |-> <<>>],
      [textkids |-> <<ValueEl(<<"v1">>, <<" ", "x">>)>>, notes |-> <<JournalNote>>,
       sets |-> <<SetEl(<<<<"s1">>>>)>>,
       files |-> Extracted(<<"n2", ".", "txt">>) :> <<"j">>],
      [textkids |-> <<ValueEl(<<"vX">>, <<"x">>)>>, notes |-> <<JournalNote>>,
       sets |-> <<SetEl(<<<<"sX">>>>)>>, files |-> <<>>],
      [textkids |-> <<RefEl("NoteRef", <<"n1">>)>>, notes |-> <<AnnotationNote>>,
       sets |-> <<SetEl(<<<<"sX">>, <<"s1">>>>)>>, files |-> <<>>] }

ProjectEl(text, other, cases, extra) ==
    Elem("Project", [name |-> <<"proj">>, origin |-> <<"Q", "C">>], None,
         DeclarationEls
         \o <<Elem("Cases", <<>>, None, cases),
              Elem("Sources", <<>>, None,
                   <<[text.els[1] EXCEPT !.kids = @ \o extra.textkids]>> \o other.els),
              Elem("Notes", <<>>, None, extra.notes),
              Elem("Sets", <<>>, None, extra.sets)>>)

Document(t, o, c, x) ==
    [root |-> ProjectEl(t, o, c, x),
     files |-> t.files @@ o.files @@ x.files,
     contents |-> {<<"project.qde">>, <<"Sources">>}]

\* Documents without cases, and documents with cases around a text source
\* of at most one selection.
Documents ==
    { Document(t, o, <<>>, x) : t \in TextSources, o \in OtherSources, x \in Extras }
    \cup { Document(t, o, c, x) :
              t \in {u \in TextSources : Len(u.els[1].kids) <= 1 /\ u.files # <<>>},
              o \in OtherSources, c \in CaseSets \ {<<>>},
              x \in {y \in Extras : y.notes = <<>>} }

ImportInit ==
    /\ pc = "declarations"
    /\ guids = <<>>
    /\ returned = <<>>
    /\ db = EmptyDb
    /\ imp = NewImport
    /\ inp \in Documents
    /\ out = [tmp |-> FALSE, summary |-> FALSE, error |-> ""]

SpecImport == ImportInit /\ [][ImportNext]_vars

(***************************************************************************)
(* Project export: RefiExport.__init__, project_xml and export_project.    *)
(* The xml text is modelled by the element tree it spells out, attribute   *)
(* values and texts being the strings as written (with their character     *)
(* references); etree_parse is the reading of it.  A store row carries the *)
(* columns the export selects; every date column holds StoreDate.          *)
(***************************************************************************)
\* The n-th value create_guid returns for one kind of thing: all distinct.
Guid(kind, n) == <<kind \o ToString(n)>>

convert_xml_predefined_entities(text) ==
    LET entity(c) ==
            IF c = "&" THEN "&#038;"
            ELSE IF c = "\"" THEN "&#034;"
            ELSE IF c = "'" THEN "&#039;"
            ELSE IF c = "<" THEN "&#060;"
            ELSE IF c = ">" THEN "&#062;"
            ELSE c
    IN  IF text = None THEN <<>> ELSE [i \in 1..Len(text) |-> entity(text[i])]

\* A text as the parser gives it: every numeric character reference is the
\* character it stands for.
Unescape(text) ==
    LET character(c) ==
            IF c = "&#038;" THEN "&"
            ELSE IF c = "&#034;" THEN "\""
            ELSE IF c = "&#039;" THEN "'"
            ELSE IF c = "&#060;" THEN "<"
            ELSE IF c = "&#062;" THEN ">"
            ELSE c
    IN  [i \in 1..Len(text) |-> character(text[i])]

\* etree.parse: references resolved; an element without content has text None
RECURSIVE etree_parse(_)
etree_parse(e) ==
    [tag |-> e.tag,
     a |-> [k \in DOMAIN e.a |-> Unescape(e.a[k])],
     text |-> IF e.text = None \/ e.text = <<>> THEN None ELSE Unescape(e.text),
     kids |-> [i \in 1..Len(e.kids) |-> etree_parse(e.kids[i])]]

StoreDate == <<"2020-01-02", " ", "03:04:05">>

\* time_in[0:10] + "T" + time_in[11:] + "Z"
convert_timestamp(time_in) == <<time_in[1], "T">> \o SubSeq(time_in, 3, Len(time_in)) \o <<"Z">>

RECURSIVE SetToSeq(_)
SetToSeq(S) ==
    IF S = {} THEN <<>>
    ELSE LET x == CHOOSE y \in S : TRUE IN <<x>> \o SetToSeq(S \ {x})

\* select distinct owner from code_image, code_text, source and code_av
get_users(store) ==
    LET owners(t) == { store[t][i].owner : i \in 1..Len(store[t]) }
        users(names) ==
            [i \in 1..Len(names) |-> [name |-> names[i], guid |-> Guid("user", i)]]
    IN  users(SetToSeq(UNION { owners(t) :
                                 t \in {"code_image", "code_text", "source", "code_av"} }))

get_codes(store) ==
    [i \in 1..Len(store.code_name) |-> store.code_name[i] @@ [guid |-> Guid("code", i)]]

get_categories(store) ==
    [i \in 1..Len(store.code_cat) |-> store.code_cat[i] @@ [guid |-> Guid("category", i)]]

Last(s) == s[Len(s)]

\* suffix of the exported file: of the media path, else of the name
Suffix(r) ==
    IF r.mediapath # None THEN Last(split(r.mediapath, <<".">>))
    ELSE IF find(r.name, <<".">>) >= 0 THEN Last(split(r.name, <<".">>))
    ELSE <<"txt">>

\* the path of a linked file, None for a file inside the project
External(mediapath) ==
    IF mediapath = None THEN None
    ELSE IF \E prefix \in {<<"docs:">>, <<"images:">>, <<"audio:">>, <<"video:">>} :
               StartsWith(mediapath, prefix)
    THEN Tail(mediapath)
    ELSE None

get_sources(store) ==
    [i \in 1..Len(store.source) |->
        store.source[i] @@
        [guid |-> Guid("source", i),
         filename |-> Guid("source", i) \o <<".">>
                        \o (IF Suffix(store.source[i]) = <<"transcribed">>
                            THEN <<"txt">> ELSE Suffix(store.source[i])),
         plaintext_filename |-> IF store.source[i].fulltext # None
                                THEN Guid("plaintext", i) \o <<".", "txt">> ELSE None,
         external |-> External(store.source[i].mediapath)]]

\* user_guid and code_guid: the first match, else ""
user_guid(users, username) ==
    IF \E i \in 1..Len(users) : users[i].name = username
    THEN users[CHOOSE i \in 1..Len(users) :
                  /\ users[i].name = username
                  /\ \A j \in 1..(i - 1) : users[j].name # username].guid
    ELSE <<>>

code_guid(codes, code_id) ==
    IF \E i \in 1..Len(codes) : codes[i].cid = code_id
    THEN codes[CHOOSE i \in 1..Len(codes) :
                  /\ codes[i].cid = code_id
                  /\ \A j \in 1..(i - 1) : codes[j].cid # code_id].guid
    ELSE <<>>

\* <Description>memo</Description> when the converted memo is not ""
DescriptionXml(memo) ==
    IF convert_xml_predefined_entities(memo) = <<>> THEN <<>>
    ELSE <<Elem("Description", <<>>, convert_xml_predefined_entities(memo), <<>>)>>

\* c['xml'] of get_codes
CodeXml(c) ==
    Elem("Code",
         [guid |-> c.guid, name |-> convert_xml_predefined_entities(c.name),
          isCodable |-> <<"true">>, color |-> c.color],
         None, DescriptionXml(c.memo))

CodesIn(codes, catid) ==
    LET own == SelectSeq(codes, LAMBDA c : c.catid = catid)
    IN  [i \in 1..Len(own) |-> CodeXml(own[i])]

\* The ceiling of the while loop of add_sub_categories
LoopCeiling == 5000

\* The loop condition without its ceiling
KeepLoopingUnbounded(unfinished, counter) == unfinished

\* while unfinished and counter < 5000
KeepLooping(unfinished, counter) == unfinished /\ counter < LoopCeiling

\* The <Code isCodable="false"> element of a category around its children
CategoryXml(c, kids) ==
    Elem("Code",
         [guid |-> c.guid, name |-> convert_xml_predefined_entities(c.name),
          isCodable |-> <<"false">>],
         None, kids)

\* A run of add_sub_categories, st = [xml, examine, depth, passes, ends]:
\* the elements written, the places in cats of the categories whose examine
\* flag is set, the deepest nesting of calls below this one, the most passes
\* of the while loop made by one call, and whether every loop ended.
RECURSIVE add_sub_categories(_, _, _, _)
RECURSIVE ForCategories(_, _, _, _, _)
RECURSIVE WhileUnfinished(_, _, _, _, _)

\* for c in cats, from place i on: a category under cid with its flag set
\* has the flag cleared, then is written with its sub-categories and codes
ForCategories(cid, cats, codes, i, st) ==
    LET written(sub) ==
            [xml |-> st.xml \o
                       <<CategoryXml(cats[i],
                                     DescriptionXml(cats[i].memo) \o sub.xml
                                       \o CodesIn(codes, cats[i].catid))>>,
             examine |-> sub.examine,
             depth |-> MaxOf({st.depth, sub.depth}),
             passes |-> MaxOf({st.passes, sub.passes}),
             ends |-> st.ends /\ sub.ends]
    IN  IF i > Len(cats) THEN st
        ELSE IF i \in st.examine /\ cats[i].supercatid = cid
        THEN ForCategories(cid, cats, codes, i + 1,
                 written(add_sub_categories(cats[i].catid, cats, codes,
                                            st.examine \ {i})))
        ELSE ForCategories(cid, cats, codes, i + 1, st)

\* The while loop after counter passes.  A pass that clears no flag writes
\* nothing, and so does every later one: the loop then ends at the first
\* count of passes that fails the loop condition, if there is one.
WhileUnfinished(cid, cats, codes, counter, st) ==
    LET idle(pass, failing) ==
            IF failing = {} THEN [pass EXCEPT !.ends = FALSE]
            ELSE [pass EXCEPT !.passes =
                     MaxOf({@, CHOOSE n \in failing : \A k \in failing : n <= k})]
        after(pass) ==
            IF ~KeepLooping(pass.examine # {}, counter + 1)
            THEN [pass EXCEPT !.passes = MaxOf({@, counter + 1})]
            ELSE IF pass.examine # st.examine
            THEN WhileUnfinished(cid, cats, codes, counter + 1, pass)
            ELSE idle(pass, {n \in (counter + 2)..LoopCeiling :
                                ~KeepLooping(pass.examine # {}, n)})
    IN  after(ForCategories(cid, cats, codes, 1, st))

\* The categories under cid, each with its sub-categories and then its
\* codes; examine: the flags set at the call
add_sub_categories(cid, cats, codes, examine) ==
    LET call(run) == [run EXCEPT !.depth = @ + 1]
    IN  call(IF KeepLooping(TRUE, 0)
             THEN WhileUnfinished(cid, cats, codes, 0,
                                  [xml |-> <<>>, examine |-> examine, depth |-> 0,
                                   passes |-> 0, ends |-> TRUE])
             ELSE [xml |-> <<>>, examine |-> examine, depth |-> 0, passes |-> 0,
                   ends |-> TRUE])

\* for ca in cats, from place i on: a top level category with its flag set
\* has the flag cleared, then is written with its codes and sub-categories
RECURSIVE TopCategories(_, _, _, _)
TopCategories(cats, codes, i, st) ==
    LET written(sub) ==
            [xml |-> st.xml \o
                       <<CategoryXml(cats[i],
                                     DescriptionXml(cats[i].memo)
                                       \o CodesIn(codes, cats[i].catid) \o sub.xml)>>,
             examine |-> sub.examine,
             depth |-> MaxOf({st.depth, sub.depth}),
             passes |-> MaxOf({st.passes, sub.passes}),
             ends |-> st.ends /\ sub.ends]
    IN  IF i > Len(cats) THEN st
        ELSE IF cats[i].supercatid = NULL /\ i \in st.examine
        THEN TopCategories(cats, codes, i + 1,
                 written(add_sub_categories(cats[i].catid, cats, codes,
                                            st.examine \ {i})))
        ELSE TopCategories(cats, codes, i + 1, st)

\* The run of codebook_xml: nothing without codes; else the codes of no
\* category, then the top level categories
CodebookRun(codes, cats) ==
    IF codes = <<>>
    THEN [xml |-> <<>>, examine |-> 1..Len(cats), depth |-> 0, passes |-> 0,
          ends |-> TRUE]
    ELSE TopCategories(cats, codes, 1,
                       [xml |-> CodesIn(codes, NULL), examine |-> 1..Len(cats),
                        depth |-> 0, passes |-> 0, ends |-> TRUE])

\* The xml codebook_xml returns
codebook_xml(codes, cats) ==
    IF codes = <<>> THEN <<>>
    ELSE <<Elem("CodeBook", <<>>, None,
                <<Elem("Codes", <<>>, None, CodebookRun(codes, cats).xml)>>)>>

\* self.variables, as variables_xml stores them
Variables(store) ==
    [i \in 1..Len(store.attribute_type) |->
        [guid |-> Guid("variable", i), name |-> store.attribute_type[i].name,
         caseOrFile |-> store.attribute_type[i].caseOrFile,
         type |-> store.attribute_type[i].valuetype]]

variables_xml(store) ==
    LET variable(r, v) ==
            Elem("Variable",
                 [guid |-> v.guid, name |-> convert_xml_predefined_entities(r.name),
                  typeOfVariable |-> IF r.valuetype = <<"numeric">>
                                     THEN <<"Float">> ELSE <<"Text">>],
                 None,
                 <<Elem("Description", <<>>,
                        IF r.memo = <<>> \/ r.memo = None THEN <<>>
                        ELSE convert_xml_predefined_entities(r.memo), <<>>)>>)
    IN  IF store.attribute_type = <<>> THEN <<>>
        ELSE <<Elem("Variables", <<>>, None,
                    [i \in 1..Len(store.attribute_type) |->
                        variable(store.attribute_type[i], Variables(store)[i])])>>

\* The VariableValue elements of the attribute rows of one case or source:
\* the guid and type of the last variable of the attribute's name
VariableValues(store, attr_type, id_) ==
    LET variables == Variables(store)
        rows == SelectSeq(store.attribute,
                          LAMBDA a : a.attr_type = attr_type /\ a.id = id_)
        value(a, hits) ==
            LET guid == IF hits = {} THEN <<>>
                        ELSE variables[MaxOf(hits)].guid
                var_type == IF hits = {} THEN <<"character">>
                            ELSE variables[MaxOf(hits)].type
            IN  Elem("VariableValue", <<>>, None,
                     <<Elem("VariableRef", [targetGUID |-> guid], None, <<>>)>>
                     \o (IF var_type = <<"numeric">>
                         THEN <<Elem("FloatValue", <<>>, a.value, <<>>)>> ELSE <<>>)
                     \o (IF var_type = <<"character">>
                         THEN <<Elem("TextValue", <<>>,
                                     convert_xml_predefined_entities(a.value), <<>>)>>
                         ELSE <<>>))
    IN  [i \in 1..Len(rows) |->
            value(rows[i], {j \in 1..Len(variables) : variables[j].name = rows[i].name})]

case_variables_xml(store, caseid) == VariableValues(store, "case", caseid)

source_variables_xml(store, sourceid) == VariableValues(store, "file", sourceid)

\* A SourceRef to s['guid'] of get_sources for every source a case_text row
\* of positions 0, 0 links to the case
case_source_ref_xml(store, caseid) ==
    LET sources == get_sources(store)
        rows == SelectSeq(store.case_text,
                          LAMBDA r : r.caseid = caseid /\ r.pos0 = 0 /\ r.pos1 = 0)
        linked(fid) == SelectSeq(sources, LAMBDA x : x.id = fid)
    IN  Concat([i \in 1..Len(rows) |->
                  [j \in 1..Len(linked(rows[i].fid)) |->
                      Elem("SourceRef", [targetGUID |-> linked(rows[i].fid)[j].guid],
                           None, <<>>)]])

cases_xml(store) ==
    LET case(r, i) ==
            Elem("Case",
                 [guid |-> Guid("case", i),
                  name |-> convert_xml_predefined_entities(r.name)],
                 None,
                 <<Elem("Description", <<>>,
                        convert_xml_predefined_entities(r.memo), <<>>)>>
                 \o case_variables_xml(store, r.caseid)
                 \o case_source_ref_xml(store, r.caseid))
    IN  IF store.cases = <<>> THEN <<>>
        ELSE <<Elem("Cases", <<>>, None,
                    [i \in 1..Len(store.cases) |-> case(store.cases[i], i)])>>

\* The rows of a table a condition selects, each with its place in the table
Numbered(tbl, keep(_)) ==
    SelectSeq([i \in 1..Len(tbl) |-> [row |-> tbl[i], n |-> i]], LAMBDA x : keep(x.row))

text_selection_xml(store, id_) ==
    LET users == get_users(store)
        codes == get_codes(store)
        results == Numbered(store.code_text, LAMBDA r : r.fid = id_)
        selection(r, n) ==
            Elem("PlainTextSelection",
                 [guid |-> Guid("selection", n), startPosition |-> str(r.pos0),
                  endPosition |-> str(r.pos1),
                  name |-> convert_xml_predefined_entities(r.seltext),
                  creatingUser |-> user_guid(users, r.owner),
                  creationDateTime |-> convert_timestamp(StoreDate)],
                 None,
                 (IF r.memo # <<>>
                  THEN <<Elem("Description", <<>>,
                              convert_xml_predefined_entities(r.memo), <<>>)>>
                  ELSE <<>>)
                 \o <<Elem("Coding",
                           [guid |-> Guid("coding", n),
                            creatingUser |-> user_guid(users, r.owner)],
                           None,
                           <<Elem("CodeRef", [targetGUID |-> code_guid(codes, r.cid)],
                                  None, <<>>)>>)>>)
    IN  [i \in 1..Len(results) |-> selection(results[i].row, results[i].n)]

picture_selection_xml(store, id_) ==
    LET users == get_users(store)
        codes == get_codes(store)
        results == Numbered(store.code_image, LAMBDA r : r.id = id_)
        selection(r, n) ==
            Elem("PictureSelection",
                 [guid |-> Guid("region", n), firstX |-> str(r.x1), firstY |-> str(r.y1),
                  secondX |-> str(r.x1 + r.width), secondY |-> str(r.y1 + r.height),
                  name |-> convert_xml_predefined_entities(r.memo),
                  creatingUser |-> user_guid(users, r.owner),
                  creationDateTime |-> convert_timestamp(StoreDate)],
                 None,
                 (IF r.memo # None /\ r.memo # <<>>
                  THEN <<Elem("Description", <<>>,
                              convert_xml_predefined_entities(r.memo), <<>>)>>
                  ELSE <<>>)
                 \o <<Elem("Coding",
                           [guid |-> Guid("regioncoding", n),
                            creatingUser |-> user_guid(users, r.owner)],
                           None,
                           <<Elem("CodeRef", [targetGUID |-> code_guid(codes, r.cid)],
                                  None, <<>>)>>)>>)
    IN  [i \in 1..Len(results) |-> selection(results[i].row, results[i].n)]

\* An AudioSelection or VideoSelection for every code_av row of the source
av_selection_xml(store, id_, mediatype) ==
    LET users == get_users(store)
        codes == get_codes(store)
        results == Numbered(store.code_av, LAMBDA r : r.id = id_)
        selection(r, n) ==
            Elem(mediatype \o "Selection",
                 [guid |-> Guid("avselection", n), begin |-> str(r.pos0),
                  end |-> str(r.pos1),
                  name |-> convert_xml_predefined_entities(r.memo),
                  creatingUser |-> user_guid(users, r.owner)],
                 None,
                 (IF r.memo # <<>>
                  THEN <<Elem("Description", <<>>,
                              convert_xml_predefined_entities(r.memo), <<>>)>>
                  ELSE <<>>)
                 \o <<Elem("Coding",
                           [guid |-> Guid("avcoding", n),
                            creatingUser |-> user_guid(users, r.owner),
                            creationDateTime |-> convert_timestamp(StoreDate)],
                           None,
                           <<Elem("CodeRef", [targetGUID |-> code_guid(codes, r.cid)],
                                  None, <<>>)>>)>>)
    IN  [i \in 1..Len(results) |-> selection(results[i].row, results[i].n)]

\* select ... from code_text where fid=? order by pos0 (rows of equal pos0
\* in the order of the table)
RECURSIVE OrderByPos0(_)
OrderByPos0(rows) ==
    IF rows = <<>> THEN <<>>
    ELSE LET sorted == OrderByPos0(SubSeq(rows, 1, Len(rows) - 1))
             x == rows[Len(rows)]
             k == Cardinality({i \in 1..Len(sorted) : sorted[i].pos0 <= x.pos0})
         IN  SubSeq(sorted, 1, k) \o <<x>> \o SubSeq(sorted, k + 1, Len(sorted))

\* sync_list: the starting point, then a point for the start and one for
\* the end of every coded span, each [guid, xml, character position]
get_transcript_syncpoints(store, media, probe, duration) ==
    LET point(n, pos, msecs) ==
            [guid |-> Guid("syncpoint", n), pos |-> pos,
             xml |-> Elem("SyncPoint",
                          [guid |-> Guid("syncpoint", n), position |-> str(pos),
                           timeStamp |-> str(msecs)],
                          None, <<>>)]
        points(tps, results) ==
            LET at(pos) ==
                    LET before == {i \in 1..Len(tps) : tps[i][1] <= pos}
                    IN  IF before = {} THEN 0
                        ELSE tps[CHOOSE i \in before : \A j \in before : j <= i][2]
                end(pos) == IF at(pos) = 0 THEN tps[Len(tps)][2] ELSE at(pos)
            IN  <<point(0, 0, 0)>>
                \o Concat([i \in 1..Len(results) |->
                             <<point(2 * i - 1, results[i].pos0, at(results[i].pos0)),
                               point(2 * i, results[i].pos1, end(results[i].pos1))>>])
    IN  points(get_transcript_timepoints(media.fulltext, probe, duration),
               OrderByPos0(SelectSeq(store.code_text, LAMBDA r : r.fid = media.id)))

\* A TranscriptSelection for every coded span, from and to the first sync
\* point at its start and at its end
get_transcript_selections(store, media, sync_list) ==
    LET first(pos) ==
            LET at == {i \in 1..Len(sync_list) : sync_list[i].pos = pos}
            IN  IF at = {} THEN <<>>
                ELSE sync_list[CHOOSE i \in at : \A j \in at : i <= j].guid
        selection(coded, n) ==
            Elem("TranscriptSelection",
                 [guid |-> Guid("transcriptselection", n),
                  name |-> convert_xml_predefined_entities(media.name),
                  fromSyncPoint |-> first(coded.pos0),
                  toSyncPoint |-> first(coded.pos1)],
                 None,
                 <<Elem("Coding", [guid |-> Guid("transcriptcoding", n)], None,
                        <<Elem("CodeRef",
                               [targetGUID |-> code_guid(get_codes(store), coded.cid)],
                               None, <<>>)>>)>>)
        selections(results) == [i \in 1..Len(results) |-> selection(results[i], i)]
    IN  selections(OrderByPos0(SelectSeq(store.code_text, LAMBDA r : r.fid = media.id)))

\* The Transcript element of a media source: of the first source named as
\* the media source with .transcribed, none without one
transcript_xml(store, source, probe, duration) ==
    LET sources == get_sources(store)
        found == {i \in 1..Len(sources) :
                    sources[i].name = source.name \o <<".", "transcribed">>}
        element(t, sync_list) ==
            Elem("Transcript",
                 [plainTextPath |->
                     InternalScheme \o convert_xml_predefined_entities(t.plaintext_filename),
                  creatingUser |-> user_guid(get_users(store), t.owner),
                  creationDateTime |-> convert_timestamp(StoreDate),
                  guid |-> Guid("transcript", 1),
                  name |-> convert_xml_predefined_entities(t.name)],
                 None,
                 [i \in 1..Len(sync_list) |-> sync_list[i].xml]
                   \o get_transcript_selections(store, t, sync_list))
        transcript(t) == element(t, get_transcript_syncpoints(store, t, probe, duration))
    IN  IF found = {} THEN <<>>
        ELSE <<transcript(sources[CHOOSE i \in found : \A j \in found : i <= j])>>

\* name[-n:] == suffix, the name taken in lower case
lower(c) == IF c = "PDF" THEN "pdf" ELSE c

EndsWith(name, suffix) ==
    /\ Len(name) >= Len(suffix)
    /\ SubSeq(name, Len(name) - Len(suffix) + 1, Len(name)) = suffix

IsPdfName(name) == EndsWith([i \in 1..Len(name) |-> lower(name[i])], <<".", "pdf">>)

IsTranscribed(name) == EndsWith(name, <<".", "transcribed">>)

\* The conditions of the TextSource, PDFSource and PictureSource branches
IsTextSource(s) ==
    \/ s.mediapath = None /\ ~IsPdfName(s.name) /\ ~IsTranscribed(s.name)
    \/ /\ s.mediapath # None /\ s.mediapath[1] = "docs:"
       /\ (~IsPdfName(s.name) \/ ~IsTranscribed(s.name))

IsPdfSource(s) ==
    \/ s.mediapath = None /\ IsPdfName(s.name)
    \/ s.mediapath # None /\ s.mediapath[1] = "docs:" /\ IsPdfName(s.name)

IsPictureSource(s) ==
    s.mediapath # None /\ s.mediapath[1] \in {"/images", "images:"}

IsAudioSource(s) ==
    s.mediapath # None /\ s.mediapath[1] \in {"/audio", "/audio/", "audio:"}

IsVideoSource(s) ==
    s.mediapath # None /\ s.mediapath[1] \in {"/video", "/video/", "video:"}

\* self.app.get_annotations(): the annotation rows, each with its place
Annotations(store) ==
    [i \in 1..Len(store.annotation) |-> store.annotation[i] @@ [n |-> i]]

\* The first annotation of the source, as the loops with break find it
FirstAnnotation(store, id_) == SelectSeq(Annotations(store), LAMBDA a : a.fid = id_)

\* path of a source file: internal://filename, or absolute://external
SourcePath(s) ==
    IF s.external = None THEN InternalScheme \o s.filename
    ELSE AbsoluteScheme \o convert_xml_predefined_entities(s.external)

\* guid is the one sources_xml draws for the element
TextSourceXml(store, users, s, i) ==
    Elem("TextSource",
         [richTextPath |-> SourcePath(s),
          plainTextPath |-> InternalScheme \o s.plaintext_filename,
          creatingUser |-> user_guid(users, s.owner),
          creationDateTime |-> convert_timestamp(StoreDate),
          guid |-> Guid("element", i),
          name |-> convert_xml_predefined_entities(s.name)],
         None,
         DescriptionXml(s.memo)
         \o text_selection_xml(store, s.id)
         \o source_variables_xml(store, s.id)
         \o (IF FirstAnnotation(store, s.id) = <<>> THEN <<>>
             ELSE <<Elem("NoteRef", [targetGUID |-> Guid("noteref", i)], None, <<>>)>>))

PdfSourceXml(store, users, s, i) ==
    Elem("PDFSource",
         [path |-> SourcePath(s),
          creatingUser |-> user_guid(users, s.owner),
          creationDateTime |-> convert_timestamp(StoreDate),
          guid |-> Guid("element", i),
          name |-> convert_xml_predefined_entities(s.name)],
         None,
         (IF s.memo # <<>>
          THEN <<Elem("Description", <<>>,
                      convert_xml_predefined_entities(s.memo), <<>>)>>
          ELSE <<>>)
         \o <<Elem("Representation",
                   [guid |-> Guid("representation", i),
                    plainTextPath |-> InternalScheme \o s.plaintext_filename,
                    creatingUser |-> user_guid(users, s.owner),
                    name |-> convert_xml_predefined_entities(s.name)],
                   None, text_selection_xml(store, s.id))>>
         \o source_variables_xml(store, s.id))

PictureSourceXml(store, users, s, i) ==
    Elem("PictureSource",
         [creatingUser |-> user_guid(users, s.owner),
          creationDateTime |-> convert_timestamp(StoreDate),
          path |-> SourcePath(s),
          guid |-> Guid("element", i),
          name |-> convert_xml_predefined_entities(s.name)],
         None,
         DescriptionXml(s.memo)
         \o picture_selection_xml(store, s.id)
         \o source_variables_xml(store, s.id))

\* The Transcript is the one transcript_xml writes when the media player
\* reads the length of the file.
AudioSourceXml(store, users, s, i) ==
    Elem("AudioSource",
         [creatingUser |-> user_guid(users, s.owner),
          creationDateTime |-> convert_timestamp(StoreDate),
          path |-> SourcePath(s),
          guid |-> Guid("element", i),
          name |-> convert_xml_predefined_entities(s.name)],
         None,
         DescriptionXml(s.memo)
         \o transcript_xml(store, s, "ok", Duration)
         \o av_selection_xml(store, s.id, "Audio")
         \o source_variables_xml(store, s.id))

\* memo = convert_xml_predefined_entities(self.code_guid(s['memo'])): the
\* memo, a text, is the cid of no code, and code_guid returns ""
VideoSourceXml(store, users, s, i) ==
    Elem("VideoSource",
         [creatingUser |-> user_guid(users, s.owner),
          creationDateTime |-> convert_timestamp(StoreDate),
          path |-> IF s.external = None
                   THEN InternalScheme \o convert_xml_predefined_entities(s.filename)
                   ELSE SourcePath(s),
          guid |-> Guid("element", i),
          name |-> convert_xml_predefined_entities(s.name)],
         None,
         DescriptionXml(<<>>)
         \o transcript_xml(store, s, "ok", Duration)
         \o av_selection_xml(store, s.id, "Video")
         \o source_variables_xml(store, s.id))

\* One element for every branch whose condition the source meets
sources_xml(store) ==
    LET users == get_users(store)
        source(s, i) ==
            (IF IsTextSource(s) THEN <<TextSourceXml(store, users, s, i)>> ELSE <<>>)
            \o (IF IsPdfSource(s) THEN <<PdfSourceXml(store, users, s, i)>> ELSE <<>>)
            \o (IF IsPictureSource(s) THEN <<PictureSourceXml(store, users, s, i)>>
                ELSE <<>>)
            \o (IF IsAudioSource(s) THEN <<AudioSourceXml(store, users, s, i)>> ELSE <<>>)
            \o (IF IsVideoSource(s) THEN <<VideoSourceXml(store, users, s, i)>> ELSE <<>>)
        each(sources) == Concat([i \in 1..Len(sources) |-> source(sources[i], i)])
    IN  <<Elem("Sources", <<>>, None, each(get_sources(store)))>>

\* a['NoteRef_guid'] as sources_xml leaves it: set for the first annotation
\* of a text or PDF source, by the PDF branch last
NoteRefGuid(store, ann) ==
    LET sources == get_sources(store)
        at == {i \in 1..Len(sources) :
                 /\ sources[i].id = ann.fid
                 /\ IsTextSource(sources[i]) \/ IsPdfSource(sources[i])
                 /\ FirstAnnotation(store, ann.fid)[1].n = ann.n}
    IN  IF at = {} THEN [found |-> FALSE]
        ELSE IF IsPdfSource(sources[MaxOf(at)])
        THEN [found |-> TRUE, guid |-> Guid("pdfnoteref", MaxOf(at))]
        ELSE [found |-> TRUE, guid |-> Guid("noteref", MaxOf(at))]

\* select name, jentry, date, owner from journal where jentry is not null
Journals(store) == SelectSeq(store.journal, LAMBDA j : j.jentry # None)

create_journal_note_xml(users, journal, i) ==
    Elem("Note",
         [guid |-> Guid("journal", i),
          creatingUser |-> user_guid(users, journal.owner),
          creationDateTime |-> convert_timestamp(StoreDate),
          name |-> convert_xml_predefined_entities(journal.name),
          plainTextPath |-> InternalScheme \o Guid("journal", i) \o <<".", "txt">>],
         None, <<Elem("Description", <<>>, <<>>, <<>>)>>)

\* The memo is written as it is, without character references
create_annotation_note_xml(store, users, ann) ==
    LET note(ref) ==
            Elem("Note",
                 [guid |-> IF ref.found THEN ref.guid ELSE Guid("note", ann.n),
                  creatingUser |-> user_guid(users, ann.owner),
                  creationDateTime |-> convert_timestamp(StoreDate)],
                 None,
                 <<Elem("PlainTextContent", <<>>, ann.memo, <<>>),
                   Elem("PlainTextSelection",
                        [guid |-> Guid("noteselection", ann.n),
                         startPosition |-> str(ann.pos0),
                         endPosition |-> str(ann.pos1)],
                        None, <<>>)>>)
    IN  note(NoteRefGuid(store, ann))

notes_xml(store) ==
    LET users == get_users(store)
        notes(j_results, annotations) ==
            IF j_results = <<>> /\ annotations = <<>> THEN <<>>
            ELSE <<Elem("Notes", <<>>, None,
                        [i \in 1..Len(j_results) |->
                            create_journal_note_xml(users, j_results[i], i)]
                        \o [i \in 1..Len(annotations) |->
                               create_annotation_note_xml(store, users, annotations[i])])>>
    IN  notes(Journals(store), Annotations(store))

\* memo = str(results[0][0])
project_description_xml(store) ==
    <<Elem("Description", <<>>,
           IF store.project_memo = None THEN <<"N", "o", "n", "e">>
           ELSE convert_xml_predefined_entities(store.project_memo), <<>>)>>

\* self.app.project_name and self.app.version
ProjectName == <<"proj", ".", "qda">>
Version == <<"Q", "C">>

project_xml(store) ==
    Elem("Project",
         [name |-> convert_xml_predefined_entities(ProjectName),
          origin |-> Version,
          creatingUserGUID |-> Guid("project", 1),
          creationDateTime |-> convert_timestamp(StoreDate)],
         None,
         <<Elem("Users", <<>>, None,
                [i \in 1..Len(get_users(store)) |->
                    Elem("User",
                         [guid |-> get_users(store)[i].guid,
                          name |-> convert_xml_predefined_entities(
                                       get_users(store)[i].name)],
                         None, <<>>)])>>
         \o codebook_xml(get_codes(store), get_categories(store))
         \o variables_xml(store)
         \o cases_xml(store)
         \o sources_xml(store)
         \o notes_xml(store)
         \o project_description_xml(store))

\* open(path, 'w', encoding="utf-8-sig").write(text): the byte order mark,
\* then the text
ByteOrderMark == "BOM"

WriteUtf8Sig(text) == <<ByteOrderMark>> \o text

RECURSIVE Merge(_)
Merge(fs) == IF fs = <<>> THEN <<>> ELSE Head(fs) @@ Merge(Tail(fs))

\* The files of the Sources folder of the archive.  stored: the project
\* folder holds the files of its sources (documents and media).
export_project(store, add_line_ending_for_maxqda, stored) ==
    LET file(s) ==
            (IF s.mediapath # None /\ s.external = None
             THEN IF stored THEN Extracted(s.filename) :> <<"media">> ELSE <<>>
             ELSE <<>>)
            @@ (IF s.mediapath = None
                THEN Extracted(s.filename) :>
                        (IF stored THEN <<"document">> ELSE WriteUtf8Sig(s.fulltext))
                ELSE <<>>)
            @@ (IF s.plaintext_filename # None
                THEN Extracted(s.plaintext_filename) :>
                        WriteUtf8Sig(IF add_line_ending_for_maxqda
                                     THEN replace(s.fulltext, <<"\n">>, <<"\r", "\n">>)
                                     ELSE s.fulltext)
                ELSE <<>>)
        notefile(j, i) ==
            Extracted(Guid("journal", i) \o <<".", "txt">>) :> WriteUtf8Sig(j.jentry)
        files(sources, journals) ==
            Merge([i \in 1..Len(sources) |-> file(sources[i])])
            @@ Merge([i \in 1..Len(journals) |-> notefile(journals[i], i)])
    IN  files(get_sources(store), Journals(store))

(***************************************************************************)
(* Export followed by import: RefiExport(app, textedit, "project") writes  *)
(* the archive of a store, import_project reads it into an empty store.    *)
(***************************************************************************)
Owner == <<"Ann">>

\* The fulltext of the text source doc.txt (source 1)
Fulltext == <<"a", "b", "\n", "c", "d">>

CodeRow(cid, name, catid) ==
    [cid |-> cid, name |-> name, memo |-> <<>>, catid |-> catid, color |-> DefaultColor]

CategoryRow(catid, name, supercatid) ==
    [catid |-> catid, name |-> name, memo |-> <<"about">>, supercatid |-> supercatid]

\* Codes and categories: names unique, every parent an existing category
Codebooks ==
    { [code_name |-> <<>>, code_cat |-> <<>>],
      [code_name |-> <<CodeRow(1, <<"A">>, NULL)>>, code_cat |-> <<>>],
      [code_name |-> <<CodeRow(1, <<"R", "&", "D">>, NULL)>>, code_cat |-> <<>>],
      [code_name |-> <<CodeRow(1, <<"A">>, NULL)>>,
       code_cat |-> <<CategoryRow(1, <<"Cat">>, NULL)>>],
      [code_name |-> <<CodeRow(1, <<"A">>, 1)>>,
       code_cat |-> <<CategoryRow(1, <<"Cat">>, NULL)>>],
      [code_name |-> <<CodeRow(1, <<"A">>, 2), CodeRow(2, <<"B">>, NULL)>>,
       code_cat |-> <<CategoryRow(1, <<"Cat">>, NULL), CategoryRow(2, <<"Sub">>, 1)>>],
      [code_name |-> <<>>, code_cat |-> <<CategoryRow(1, <<"Cat">>, NULL)>>] }

SourceRow(id, name, fulltext, mediapath) ==
    [id |-> id, name |-> name, fulltext |-> fulltext, mediapath |-> mediapath,
     memo |-> <<>>, owner |-> Owner, av_text_id |-> NULL]

CodeTextRow(pos0, pos1) ==
    [cid |-> 1, fid |-> 1, seltext |-> Slice(Fulltext, pos0, pos1), pos0 |-> pos0,
     pos1 |-> pos1, owner |-> Owner, memo |-> <<>>]

AnnotationRow(pos0, pos1) ==
    [fid |-> 1, pos0 |-> pos0, pos1 |-> pos1, memo |-> <<"remark">>, owner |-> Owner]

MaxAnnotations == 2

\* The text source with its coded spans (on code 1) and its annotations
Texts(coded) ==
    { [source |-> <<>>, code_text |-> <<>>, annotation |-> <<>>] }
    \cup { [source |-> <<SourceRow(1, <<"doc", ".", "txt">>, Fulltext, None)>>,
            code_text |-> spans,
            annotation |-> [i \in 1..n |-> AnnotationRow(i - 1, i + 1)]] :
              spans \in IF coded
                        THEN {<<>>, <<CodeTextRow(0, 2)>>, <<CodeTextRow(1, 4)>>,
                              <<CodeTextRow(0, 2), CodeTextRow(1, 4)>>}
                        ELSE {<<>>},
              n \in 0..MaxAnnotations }

\* What else the store holds: a case with a variable, a picture, a PDF
\* document, a journal entry
Others(coded) ==
    { [source |-> <<>>, code_image |-> <<>>, cases |-> <<>>, attribute_type |-> <<>>,
       attribute |-> <<>>, journal |-> <<>>],
      [source |-> <<>>, code_image |-> <<>>,
       cases |-> <<[caseid |-> 1, name |-> <<"Bo">>, memo |-> <<>>]>>,
       attribute_type |-> <<[name |-> <<"Age">>, caseOrFile |-> "case",
                             valuetype |-> <<"numeric">>, memo |-> <<>>]>>,
       attribute |-> <<[name |-> <<"Age">>, attr_type |-> "case",
                        value |-> <<"3", "0">>, id |-> 1]>>,
       journal |-> <<>>],
      [source |-> <<SourceRow(2, <<"pic", ".", "png">>, None,
                              <<"/images", "/", "pic", ".", "png">>)>>,
       code_image |-> IF coded
                      THEN <<[id |-> 2, x1 |-> 1, y1 |-> 2, width |-> 3, height |-> 4,
                              cid |-> 1, memo |-> <<>>, owner |-> Owner]>>
                      ELSE <<>>,
       cases |-> <<>>, attribute_type |-> <<>>, attribute |-> <<>>, journal |-> <<>>],
      [source |-> <<SourceRow(2, <<"p", ".", "pdf">>, <<"p", "q">>, None)>>,
       code_image |-> <<>>, cases |-> <<>>, attribute_type |-> <<>>,
       attribute |-> <<>>, journal |-> <<>>],
      [source |-> <<>>, code_image |-> <<>>, cases |-> <<>>, attribute_type |-> <<>>,
       attribute |-> <<>>,
       journal |-> <<[name |-> <<"diary">>, jentry |-> <<"x", "y">>,
                      owner |-> Owner]>>] }

Store(k, t, o) ==
    [EmptyDb EXCEPT !.code_name = k.code_name, !.code_cat = k.code_cat,
                    !.source = t.source \o o.source, !.code_text = t.code_text,
                    !.annotation = t.annotation, !.code_image = o.code_image,
                    !.cases = o.cases, !.attribute_type = o.attribute_type,
                    !.attribute = o.attribute, !.journal = o.journal]

Stores ==
    UNION { { Store(k, t, o) : t \in Texts(k.code_name # <<>>),
                               o \in Others(k.code_name # <<>>) } : k \in Codebooks }

RoundTripInit ==
    /\ pc = "export"
    /\ guids = <<>>
    /\ returned = <<>>
    /\ db = EmptyDb
    /\ imp = NewImport
    /\ inp \in { [store |-> st, maxqda |-> m, stored |-> f,
                  root |-> Elem("Project", <<>>, None, <<>>), files |-> <<>>,
                  contents |-> {}] :
                   st \in Stores, m \in BOOLEAN, f \in BOOLEAN }
    /\ out = [tmp |-> FALSE, summary |-> FALSE, error |-> "", staging |-> FALSE]

\* What the file system does to export_project: nothing, os.mkdir of the
\* staging folder fails, os.mkdir of its Sources folder fails, or the write
\* of project.qde fails.
ExportFaults == {"none", "mkdir", "mkdir Sources", "write project.qde"}

\* RefiExport.__init__ for export_type "project": project_xml, then
\* export_project with the line ending the dialog chose; the archive holds
\* project.qde, read back by etree.parse, and the Sources folder.
\* out.staging: the staging folder prep_path exists.  A failed mkdir or
\* write shows a message and returns: no archive is made.
ExportProject ==
    /\ pc = "export"
    /\ \E fault \in ExportFaults :
          IF fault = "none"
          THEN /\ inp' = [inp EXCEPT
                            !.root = etree_parse(project_xml(inp.store)),
                            !.files = export_project(inp.store, inp.maxqda, inp.stored),
                            !.contents = {<<"project.qde">>, <<"Sources">>}]
               /\ out' = [out EXCEPT !.staging = FALSE]
               /\ pc' = "declarations"
          ELSE /\ out' = [out EXCEPT !.staging = (fault # "mkdir"),
                                     !.error = "Project not exported"]
               /\ pc' = "returned"
               /\ UNCHANGED inp
    /\ UNCHANGED <<guids, returned, db, imp>>

RoundTripNext ==
    \/ ExportProject
    \/ ImportNext

SpecRoundTrip == RoundTripInit /\ [][RoundTripNext]_vars

(***************************************************************************)
(* Properties of the round trip                                            *)
(***************************************************************************)
Finished == pc \in {"end", "aborted"}

\* A store of one text source, one code and one coded span, and no more
OneCodedSpan(store) ==
    /\ Len(store.source) = 1 /\ store.source[1].mediapath = None
    /\ Len(store.code_name) = 1 /\ Len(store.code_text) = 1
    /\ store.code_cat = <<>> /\ store.annotation = <<>> /\ store.cases = <<>>
    /\ store.attribute_type = <<>> /\ store.journal = <<>>

\* C1: for a store of one text source with fulltext T and one code C on the
\* span [p0, p1) of T, export followed by import into an empty store ends
\* with a text source whose fulltext is T and exactly one coded text span,
\* on the code named like C, from p0 to p1, with selected text T[p0:p1].
C1_RoundTrip ==
    (Finished /\ OneCodedSpan(inp.store)) =>
        /\ pc = "end"
        /\ Len(db.source) = 1
        /\ db.source[1].fulltext = inp.store.source[1].fulltext
        /\ Len(db.code_text) = 1
        /\ db.code_text[1].pos0 = inp.store.code_text[1].pos0
        /\ db.code_text[1].pos1 = inp.store.code_text[1].pos1
        /\ db.code_text[1].seltext =
              Slice(inp.store.source[1].fulltext, inp.store.code_text[1].pos0,
                    inp.store.code_text[1].pos1)
        /\ \E i \in 1..Len(db.code_name) :
              /\ db.code_name[i].cid = db.code_text[1].cid
              /\ db.code_name[i].name = inp.store.code_name[1].name

\* The entity counts of a store: codes, categories, sources, cases, coded
\* spans, annotations, variables
Counts(store) ==
    [codes |-> Len(store.code_name), categories |-> Len(store.code_cat),
     sources |-> Len(store.source), cases |-> Len(store.cases),
     spans |-> Len(store.code_text) + Len(store.code_image) + Len(store.code_av),
     annotations |-> Len(store.annotation),
     variables |-> Len(store.attribute_type)]

\* C2: for every store with unique names and existing parents, export
\* followed by import into an empty store ends with as many codes,
\* categories, sources, cases, coded spans, annotations and variables as the
\* store has.
C2_RoundTripCounts ==
    Finished => pc = "end" /\ Counts(db) = Counts(inp.store)

(***************************************************************************)
(* Properties of import_project                                            *)
(***************************************************************************)
DocCases == Concat([i \in 1..Len(Children(inp.root, "Cases")) |->
                       Children(inp.root, "Cases")[i].kids])
DocSources == Concat([i \in 1..Len(Children(inp.root, "Sources")) |->
                         Children(inp.root, "Sources")[i].kids])
NamelessCases == { c \in Range(DocCases) : Get(c, "name") = None }
FileRows == SelectSeq(db.attribute, LAMBDA a : a.attr_type = "file")
\* The cases have been imported, or the import ended on the way to them in
\* the exception of the file variables.
CasesDone ==
    \/ pc \in {"cleanup", "sets", "wrapup", "end"}
    \/ pc = "aborted" /\ out.error = "KeyError"

\* Sources are stored in document order with ids from 1, a media source
\* ahead of its transcript: the n-th of the two sources has id n.
SourceIdOf(guid) ==
    CHOOSE i \in 1..Len(DocSources) : Get(DocSources[i], "guid") = guid

\* C5: once the cases have been imported, a Case without a name that has
\* exactly one SourceRef, naming a source of the document, and k
\* VariableValue children has left exactly k attribute rows of type 'file',
\* all with that source's id; one with no SourceRef, several, or one that
\* names no source has left none; and no case row exists for it.
C5_FileVariables ==
    CasesDone =>
        \A c \in NamelessCases :
            LET refs == Children(c, "SourceRef")
                target == Get(refs[1], "targetGUID")
                k == Len(Children(c, "VariableValue"))
            IN  /\ Len(db.cases) = Len(DocCases) - Cardinality(NamelessCases)
                /\ IF /\ Len(refs) = 1
                      /\ \E i \in 1..Len(DocSources) : Get(DocSources[i], "guid") = target
                   THEN /\ Len(FileRows) = k
                        /\ \A i \in 1..k : FileRows[i].id = SourceIdOf(target)
                   ELSE FileRows = <<>>

SameSpan(a, b) ==
    /\ a.cid = b.cid /\ a.fid = b.fid
    /\ a.pos0 = b.pos0 /\ a.pos1 = b.pos1 /\ a.owner = b.owner

\* C7: a coded text span equal in code, source, start, end and owner to one
\* already stored raises no exception out of the import, and the store
\* holds one row for it.
C7_DuplicateCodingSkipped ==
    /\ out.error # "IntegrityError"
    /\ \A i, j \in 1..Len(db.code_text) :
          (i # j /\ db.code_text[i].cid # NULL)
              => ~SameSpan(db.code_text[i], db.code_text[j])

\* C9: a CodeRef, VariableRef, SourceRef or MemberSource that names nothing
\* in the document raises no exception out of the import and leaves no row:
\* no coding row without a code id, no attribute row without a variable name.
C9_ReferenceErrorsSkipped ==
    /\ out.error # "KeyError"
    /\ \A t \in {"code_text", "code_image", "code_av"} :
          \A i \in 1..Len(db[t]) : db[t][i].cid # NULL
    /\ \A i \in 1..Len(db.attribute) :
          db.attribute[i].name \notin {<<>>, None}

\* C10: a text, media, transcript or journal note file that cannot be read
\* never ends the import: no run is left by the exception of a missing file.
C10_IOErrorsNeverAbort ==
    pc = "aborted" => out.error # "FileNotFoundError"

(***************************************************************************)
(* Temporary folders of export_project and import_project                  *)
(***************************************************************************)
\* The run is over: the export returned early, or the import ended, with
\* its summary or by an exception.
Ended == pc \in {"returned", "end", "aborted"}

\* C11: when the run ends, by any path (completion, completion with
\* warnings about files, the early return after a failed write of
\* project.qde, an exception in a middle phase), neither the staging folder
\* of export_project nor the extract folder of import_project exists.
C11_TemporaryFoldersRemoved ==
    Ended => ~out.staging /\ ~out.tmp

(***************************************************************************)
(* codebook_xml over any categories and codes                              *)
(***************************************************************************)
MaxCategories == 3
MaxCodes == 1

\* supercatid of a category: none, a category, or an id of no category
SuperCatIds == {NULL, 1, 2, 9}

\* catid of a code: none, a category, or an id of no category
CatIds == {NULL, 1, 9}

\* The code_cat tables of n categories, ids 1..n, any parents
CodeCatTables(n) ==
    { [i \in 1..n |-> CategoryRow(i, <<"Cat" \o ToString(i)>>, parent[i])] :
        parent \in [1..n -> SuperCatIds] }

\* The code_name tables of n codes, ids 1..n, any categories
CodeNameTables(n) ==
    { [i \in 1..n |-> CodeRow(i, <<"Code" \o ToString(i)>>, of[i])] :
        of \in [1..n -> CatIds] }

ExportCodebookInit ==
    /\ pc = "codebook"
    /\ guids = <<>>
    /\ returned = <<>>
    /\ db = EmptyDb
    /\ imp = NewImport
    /\ \E n \in 0..MaxCategories, m \in 0..MaxCodes :
          \E cats \in CodeCatTables(n), codes \in CodeNameTables(m) :
             inp = [store |-> [EmptyDb EXCEPT !.code_cat = cats, !.code_name = codes]]
    /\ out = [xml |-> <<>>, examine |-> {}, depth |-> 0, passes |-> 0, ends |-> TRUE]

\* RefiExport.__init__ reads the categories and codes; codebook_xml
ExportCodebook ==
    /\ pc = "codebook"
    /\ out' = CodebookRun(get_codes(inp.store), get_categories(inp.store))
    /\ pc' = "written"
    /\ UNCHANGED <<guids, returned, db, imp, inp>>

ExportCodebookNext == ExportCodebook

SpecExportCodebook == ExportCodebookInit /\ [][ExportCodebookNext]_vars

\* How many Code elements of the xml, at any depth, carry the guid
RECURSIVE CodeElements(_, _)
CodeElements(xml, guid) ==
    IF xml = <<>> THEN 0
    ELSE (IF IsCode(Head(xml)) /\ Get(Head(xml), "guid") = guid THEN 1 ELSE 0)
           + CodeElements(Head(xml).kids, guid) + CodeElements(Tail(xml), guid)

\* C12: the xml of codebook_xml holds exactly one Code element for every
\* category and one for every code of the project, whatever the categories
\* and codes are: a parent that is no category, a code in no existing
\* category, categories without any code.
C12_OneElementEach ==
    pc = "written" =>
       /\ \A i \in 1..Len(inp.store.code_cat) :
             CodeElements(out.xml, get_categories(inp.store)[i].guid) = 1
       /\ \A i \in 1..Len(inp.store.code_name) :
             CodeElements(out.xml, get_codes(inp.store)[i].guid) = 1

\* Two categories are each the parent of the other, or one is its own parent
HasCycle(cats) ==
    \E i, j \in 1..Len(cats) :
       cats[i].supercatid = cats[j].catid /\ cats[j].supercatid = cats[i].catid

\* C13: codebook_xml and add_sub_categories end for every finite set of
\* categories and any parent relation, cycles and parents that are no
\* category included: the loop of each call makes at most 5000 passes and
\* the calls never nest deeper than the number of categories.
C13_CodebookTerminates ==
    pc = "written" =>
       /\ out.ends
       /\ out.passes <= 5000
       /\ out.depth <= Len(inp.store.code_cat)

\* A codebook with a cycle of categories under a written top category was
\* exported, a loop running to its ceiling.
C13_Witness ==
    /\ pc = "written"
    /\ HasCycle(inp.store.code_cat)
    /\ out.xml # <<>>
    /\ out.passes = 5000
    /\ out.depth >= 1
    /\ out.ends

(***************************************************************************)
(* Code elements without Code children in sub_codes                        *)
(***************************************************************************)
\* How many Code elements of the tree under e, e included, have the name
RECURSIVE CodesNamed(_, _)
RECURSIVE CodesNamedIn(_, _, _)
CodesNamedIn(kids, i, name) ==
    IF i > Len(kids) THEN 0
    ELSE CodesNamed(kids[i], name) + CodesNamedIn(kids, i + 1, name)

CodesNamed(e, name) ==
    (IF IsCode(e) /\ Get(e, "name") = name THEN 1 ELSE 0)
      + CodesNamedIn(e.kids, 1, name)

\* The id sub_codes passes to the children of a category element: the id of
\* the category row it added, none when it added no row
IdPassedBy(parent) ==
    IF \E r \in NewRows(db.code_cat, inp.db0.code_cat) : r.name = Get(parent, "name")
    THEN (CHOOSE r \in NewRows(db.code_cat, inp.db0.code_cat) :
             r.name = Get(parent, "name")).catid
    ELSE NULL

\* The name of the element is in no code row of the store before the call
\* and of no other Code element of the document
NameFree(e) ==
    /\ ~NameTaken(inp.db0.code_name, Get(e, "name"))
    /\ CodesNamed(inp.elem, Get(e, "name")) = 1

\* The run added exactly one code row of the element's name, and that row is
\* under cat_id and has the element's colour or the default one
OneCodeRow(e, cat_id) ==
    LET rows == { r \in NewRows(db.code_name, inp.db0.code_name) :
                    r.name = Get(e, "name") }
    IN  /\ Cardinality(rows) = 1
        /\ \A r \in rows : r.catid = cat_id /\ r.color = ColorOf(e)

\* Every Code element without Code children under e, reached with cat_id,
\* whose name is free has its one code row (looked at under the categories
\* whose name no other Code element has: their row is known by its name)
RECURSIVE LeavesInserted(_, _)
LeavesInserted(e, cat_id) ==
    IF \E i \in 1..Len(e.kids) : IsCode(e.kids[i])
    THEN CodesNamed(inp.elem, Get(e, "name")) <= 1 =>
            \A i \in 1..Len(e.kids) :
               IsCode(e.kids[i]) => LeavesInserted(e.kids[i], IdPassedBy(e))
    ELSE NameFree(e) => OneCodeRow(e, cat_id)

\* C14: every Code element without a Code child whose name is not taken is
\* added by sub_codes as one code row, under the category id passed in
\* (none at the top) and with its color attribute or #999999, whatever its
\* other children are: none, a Description, a NoteRef, several of them.
C14_LeafInserted ==
    pc = "done" => LeavesInserted(inp.elem, NULL)

(***************************************************************************)
(* import_codebook: the count of categories and codes imported             *)
(***************************************************************************)
MaxTopCodes == 2

\* The category and code rows of a store
CodebookRows(d) == Len(d.code_cat) + Len(d.code_name)

\* for el_ in code_elements: counter += self.sub_codes(cb, None): one call
\* for each child of cb; calls: what each call returned and what it added
RECURSIVE CodebookCalls(_, _)
CodebookCalls(cb, st) ==
    LET after(r) ==
            [db |-> r.db, codes |-> r.codes, counter |-> st.counter + r.counter,
             calls |-> Append(st.calls,
                              [returned |-> r.counter,
                               added |-> CodebookRows(r.db) - CodebookRows(st.db)])]
    IN  IF Len(st.calls) >= Len(cb.kids) THEN st
        ELSE CodebookCalls(cb,
                 after(sub_codes(cb, NULL,
                                 [db |-> st.db, codes |-> st.codes, counter |-> 0])))

\* import_codebook on the root of the file: the first Codes child is
\* imported and its count reported; without one, nothing is imported
import_codebook(root, d, codes) ==
    LET found == { i \in 1..Len(root.kids) : root.kids[i].tag = "Codes" }
        first == CHOOSE i \in found : \A j \in found : i <= j
        report(st) == st @@ [message |-> "Codebook imported"]
    IN  IF found = {}
        THEN [db |-> d, codes |-> codes, counter |-> 0, calls |-> <<>>,
              message |-> "NOT imported"]
        ELSE report(CodebookCalls(root.kids[first],
                        [db |-> d, codes |-> codes, counter |-> 0, calls |-> <<>>]))

\* The children of Codes: codes A and B, a code without a name, a codable
\* category A holding code B, a category B holding code A
CodesChildren ==
    { CodeElem(<<"A">>, <<"g1">>, <<"true">>, None, <<>>),
      CodeElem(<<"B">>, <<"g2">>, <<"true">>, <<"#ff0000">>, <<DescriptionElem>>),
      CodeElem(None, <<"g3">>, <<"true">>, None, <<>>),
      CodeElem(<<"A">>, <<"g4">>, <<"true">>, None,
               <<CodeElem(<<"B">>, <<"g5">>, <<"true">>, None, <<>>)>>),
      CodeElem(<<"B">>, <<"g6">>, <<"false">>, None,
               <<DescriptionElem, CodeElem(<<"A">>, <<"g7">>, <<"true">>, None, <<>>)>>) }

\* The roots of a codebook file: a CodeBook with its Codes, or without
CodebookRoots ==
    { Elem("CodeBook", <<>>, None, <<Elem("Codes", <<>>, None, kids)>>) :
        kids \in UNION { [1..n -> CodesChildren] : n \in 0..MaxTopCodes } }
    \cup { Elem("CodeBook", <<>>, None, <<>>) }

ImportCodebookInit ==
    /\ pc = "import_codebook"
    /\ guids = <<>>
    /\ returned = <<>>
    /\ \E d \in PriorDbs : db = d /\ \E r \in CodebookRoots : inp = [root |-> r, db0 |-> d]
    /\ imp = NewImport
    /\ out = [counter |-> 0, calls |-> <<>>, message |-> ""]

ImportCodebook ==
    /\ pc = "import_codebook"
    /\ LET done(st) ==
               /\ db' = st.db
               /\ imp' = [imp EXCEPT !.codes = st.codes]
               /\ out' = [counter |-> st.counter, calls |-> st.calls,
                          message |-> st.message]
       IN  done(import_codebook(inp.root, db, imp.codes))
    /\ pc' = "done"
    /\ UNCHANGED <<guids, returned, inp>>

ImportCodebookNext == ImportCodebook

SpecImportCodebook == ImportCodebookInit /\ [][ImportCodebookNext]_vars

\* The rows of the table before the run are its first rows after it
RowsKept(t) ==
    /\ Len(inp.db0[t]) <= Len(db[t])
    /\ \A i \in 1..Len(inp.db0[t]) : db[t][i] = inp.db0[t][i]

\* Every Code child of Codes without children has a code row of its name
TopCodesPresent ==
    \A i \in 1..Len(inp.root.kids) :
       \A j \in 1..Len(inp.root.kids[i].kids) :
          LET e == inp.root.kids[i].kids[j]
          IN  (IsCode(e) /\ e.kids = <<>>) =>
                 \E k \in 1..Len(db.code_name) : db.code_name[k].name = Get(e, "name")

\* C15: the number each call of sub_codes returns, and the total that
\* import_codebook reports after calling sub_codes on the whole Codes
\* element once per child of Codes, is the number of category rows plus code
\* rows the call added; an insert rejected for its name is not counted,
\* changes no row that was there, and the elements after it are still read.
C15_CounterIsRowsAdded ==
    pc = "done" =>
       /\ \A i \in 1..Len(out.calls) : out.calls[i].returned = out.calls[i].added
       /\ out.counter = CodebookRows(db) - CodebookRows(inp.db0)
       /\ RowsKept("code_cat") /\ RowsKept("code_name")
       /\ TopCodesPresent

\* An import with two children of Codes, hence two calls, where the first
\* child's name was taken and a later element was added and counted.
C15_Witness ==
    /\ pc = "done"
    /\ Len(out.calls) = 2
    /\ NameTaken(inp.db0.code_name, Get(inp.root.kids[1].kids[1], "name"))
    /\ out.counter > 0
    /\ out.counter = out.calls[1].returned + out.calls[2].returned

(***************************************************************************)
(* parse_variables on any Variables element                                *)
(***************************************************************************)
MaxVariables == 2

\* typeOfVariable as files have it: the six of the standard, the spelling
\* of the docstring, lower case, and none for a Variable without it
TypesOfVariable ==
    { <<"Text">>, <<"Boolean">>, <<"Date">>, <<"DateTime">>, <<"Integer">>,
      <<"Float">>, <<"Datetime">>, <<"text">>, None }

VariableElem(name, guid, type) ==
    Elem("Variable",
         [name |-> name, guid |-> guid]
           @@ (IF type = None THEN <<>> ELSE [typeOfVariable |-> type]),
         None, <<Elem("Description", <<>>, None, <<>>)>>)

VariablesInit ==
    /\ pc = "parse_variables"
    /\ guids = <<>>
    /\ returned = <<>>
    /\ db = EmptyDb
    /\ imp = NewImport
    /\ \E n \in 1..MaxVariables :
          \E e \in { Elem("Variables", <<>>, None,
                          [i \in 1..n |->
                             VariableElem(name[i], <<"v" \o ToString(i)>>, type[i])]) :
                       name \in [1..n -> {<<"Age">>, <<"Sex">>}],
                       type \in [1..n -> TypesOfVariable] } :
             inp = [element |-> e]
    /\ out = ""

\* self.parse_variables(c), in the open project
ParseVariablesCall ==
    /\ pc = "parse_variables"
    /\ LET done(run) ==
               /\ db' = run.db
               /\ imp' = run.imp
               /\ out' = run.error
       IN  done(parse_variables([ok |-> TRUE, error |-> "", db |-> db, imp |-> imp,
                                 env |-> [files |-> <<>>, contents |-> {}]],
                                inp.element))
    /\ pc' = "done"
    /\ UNCHANGED <<guids, returned, inp>>

VariablesNext == ParseVariablesCall

SpecVariables == VariablesInit /\ [][VariablesNext]_vars

\* The valuetype the standard's types are stored as
KindOf(type) ==
    IF type \in {<<"Text">>, <<"Boolean">>, <<"Date">>, <<"DateTime">>}
    THEN {<<"character">>}
    ELSE IF type \in {<<"Integer">>, <<"Float">>} THEN {<<"numeric">>}
    ELSE {<<"character">>, <<"numeric">>}

\* C16: after parse_variables every attribute_type row it inserted has the
\* valuetype character for a Variable of type Text, Boolean, Date or
\* DateTime and numeric for Integer or Float, never anything but those two
\* whatever typeOfVariable is (absent and other spellings included), and
\* the scope file.
C16_ValueTypeOneOfTwo ==
    pc = "done" =>
       \A i \in 1..Len(db.attribute_type) :
          LET row == db.attribute_type[i]
          IN  /\ row.caseOrFile = "file"
              /\ \E j \in 1..Len(inp.element.kids) :
                    /\ Get(inp.element.kids[j], "name") = row.name
                    /\ \A k \in 1..(j - 1) : Get(inp.element.kids[k], "name") # row.name
                    /\ row.valuetype \in KindOf(Get(inp.element.kids[j], "typeOfVariable"))

(***************************************************************************)
(* The scope of the variables at the end of import_project                 *)
(***************************************************************************)
\* The Variable elements of the document
DocVariables == Concat([i \in 1..Len(Children(inp.root, "Variables")) |->
                           Children(inp.root, "Variables")[i].kids])

\* A Case with a name has a VariableValue whose VariableRef names the GUID
UsedByNamedCase(guid) ==
    \E c \in Range(DocCases) :
       /\ Get(c, "name") # None
       /\ \E vv \in Range(Children(c, "VariableValue")) :
             \E ref \in Range(Children(vv, "VariableRef")) :
                Get(ref, "targetGUID") = guid

\* The scope of the attribute_type rows of the name
ScopesOf(name) ==
    { db.attribute_type[i].caseOrFile :
        i \in { j \in 1..Len(db.attribute_type) : db.attribute_type[j].name = name } }

\* C17: at the end of import_project a declared variable has the scope
\* case exactly when a Case with a name has a VariableValue whose
\* VariableRef names its GUID, and the scope file otherwise; so no variable
\* of scope case has attribute rows of type file under its name, and no
\* attribute row of type case is under a variable of scope file.
C17_ScopeOfVariables ==
    pc = "end" =>
       /\ \A v \in Range(DocVariables) :
             ScopesOf(Get(v, "name")) =
                IF UsedByNamedCase(Get(v, "guid")) THEN {"case"} ELSE {"file"}
       /\ \A i \in 1..Len(db.attribute) :
             /\ db.attribute[i].attr_type = "file" =>
                   "case" \notin ScopesOf(db.attribute[i].name)
             /\ db.attribute[i].attr_type = "case" =>
                   "file" \notin ScopesOf(db.attribute[i].name)

(***************************************************************************)
(* Codes that are cases: clean_up_case_codes_and_case_text                 *)
(***************************************************************************)
\* The imported codes that have the GUID of an imported case
CaseCodes == { c \in Range(imp.codes) : \E k \in Range(imp.cases) : k.guid = c.guid }

\* The rows of a table that are not of the codes that are cases
OtherRows(d, t) ==
    SelectSeq(d[t], LAMBDA r : \A c \in CaseCodes : r.cid # c.cid)

\* The case_text rows of case k for the span of the code_text row t
CaseTextRows(d, k, t) ==
    { i \in 1..Len(d.case_text) :
        /\ d.case_text[i].caseid = k.caseid
        /\ d.case_text[i].fid = t.fid
        /\ d.case_text[i].pos0 = t.pos0
        /\ d.case_text[i].pos1 = t.pos1 }

CleanedUp ==
    (pc = "cleanup" /\ pc' = "sets") =>
       /\ \A c \in CaseCodes :
             /\ \A t \in {"code_name", "code_text", "code_image", "code_av"} :
                   \A i \in 1..Len(db'[t]) : db'[t][i].cid # c.cid
             /\ \A k \in Range(imp.cases) :
                   k.guid = c.guid =>
                      \A i \in 1..Len(db.code_text) :
                         db.code_text[i].cid = c.cid =>
                            Cardinality(CaseTextRows(db', k, db.code_text[i])) = 1
       /\ \A t \in {"code_name", "code_text", "code_image", "code_av"} :
             OtherRows(db', t) = OtherRows(db, t)

\* C18: clean_up_case_codes_and_case_text leaves, for every imported code
\* that has the GUID of an imported named case, no code row and no coded
\* span of any kind (text, image, audio or video) of that code, and for each
\* text span that was coded with it exactly one case_text row of that case
\* with the span's source, pos0 and pos1; the other codes and their spans
\* are as they were.
C18_CaseCodesCleanedUp == [][CleanedUp]_vars

(***************************************************************************)
(* Sets of sources: parse_sets                                             *)
(***************************************************************************)
\* The Set elements of the document
DocSets == Concat([i \in 1..Len(Children(inp.root, "Sets")) |->
                      Children(Children(inp.root, "Sets")[i], "Set")])

\* How many MemberSource children of the Set name the GUID
MemberRefs(set, guid) ==
    Len(SelectSeq(Children(set, "MemberSource"),
                  LAMBDA m : Get(m, "targetGUID") = guid))

\* The attribute rows a Set named name gives the source id
SetRows(name, id) ==
    SelectSeq(db.attribute,
              LAMBDA a : /\ a.name = name /\ a.attr_type = "file"
                         /\ a.value = name /\ a.id = id)

\* The sets have been parsed
SetsDone == pc \in {"wrapup", "end"}

\* C19: after the sets are parsed, for every Set named N with imported
\* sources among its MemberSource children, each such source has one
\* attribute row (N, file, N, its id) for every MemberSource that names it,
\* and a variable N of kind character and scope file exists, also when a
\* variable named N was declared before.
C19_SetVariables ==
    SetsDone =>
       \A set \in Range(DocSets) :
          \A s \in Range(imp.sources) :
             MemberRefs(set, s.guid) > 0 =>
                /\ Len(SetRows(Get(set, "name"), s.id)) = MemberRefs(set, s.guid)
                /\ \E i \in 1..Len(db.attribute_type) :
                      /\ db.attribute_type[i].name = Get(set, "name")
                      /\ db.attribute_type[i].valuetype = <<"character">>
                      /\ db.attribute_type[i].caseOrFile = "file"

(***************************************************************************)
(* Coded spans of a transcript: transcript_xml, then                       *)
(* parse_transcript_with_codings_and_syncpoints                            *)
(***************************************************************************)
MaxSpans == 2

\* The coded spans of a transcript of five characters
Spans == { s \in (0..3) \X (1..4) : s[1] < s[2] }

\* A store with code A, the audio a.mp3 (source 1) and its transcript
\* (source 2) with coded spans, different ones, in any order
TranscriptStores ==
    { [EmptyDb EXCEPT
         !.code_name = <<CodeRow(1, <<"A">>, NULL)>>,
         !.source = <<SourceRow(1, <<"a", ".", "mp3">>, None, <<"/audio/", "a", ".", "mp3">>),
                      SourceRow(2, <<"a", ".", "mp3", ".", "transcribed">>, Fulltext, None)>>,
         !.code_text = [i \in 1..Len(spans) |->
                          [CodeTextRow(spans[i][1], spans[i][2]) EXCEPT !.fid = 2]]] :
        spans \in { s \in SeqsUpTo(Spans, MaxSpans) :
                      \A i, j \in 1..Len(s) : i # j => s[i] # s[j] } }

TranscriptInit ==
    /\ pc = "transcript_xml"
    /\ guids = <<>>
    /\ returned = <<>>
    /\ db = EmptyDb
    /\ imp = NewImport
    /\ \E st \in TranscriptStores :
          inp = [store |-> st, element |-> <<>>, files |-> <<>>, contents |-> {<<"Sources">>}]
    /\ out = ""

\* The Transcript element of the audio source, as written and parsed, with
\* the plain text file of the transcript in the Sources folder
ExportTranscript ==
    /\ pc = "transcript_xml"
    /\ LET parsed(xml) == [i \in 1..Len(xml) |-> etree_parse(xml[i])]
       IN  inp' = [inp EXCEPT
                     !.element = parsed(transcript_xml(inp.store, inp.store.source[1],
                                                       "ok", Duration)),
                     !.files = export_project(inp.store, FALSE, FALSE)]
    /\ pc' = "parse_transcript"
    /\ UNCHANGED <<guids, returned, db, imp, out>>

\* The transcript is read into a project that has the code, the user and
\* the audio source (source 1) of the file
ImportTranscript ==
    /\ pc = "parse_transcript"
    /\ LET done(run) ==
               /\ db' = run.db
               /\ imp' = run.imp
               /\ out' = run.error
           read(run) ==
               ForEach(LAMBDA r, e :
                          parse_transcript_with_codings_and_syncpoints(
                              r, inp.store.source[1].name, 1, e),
                       run, inp.element)
       IN  done(read([ok |-> TRUE, error |-> "",
                      db |-> [db EXCEPT !.source = <<inp.store.source[1]>>],
                      imp |-> [imp EXCEPT
                                 !.codes = [i \in 1..Len(get_codes(inp.store)) |->
                                              [guid |-> get_codes(inp.store)[i].guid,
                                               cid |-> get_codes(inp.store)[i].cid]],
                                 !.users = get_users(inp.store)],
                      env |-> [files |-> inp.files, contents |-> inp.contents]]))
    /\ pc' = "done"
    /\ UNCHANGED <<guids, returned, inp>>

TranscriptNext == ExportTranscript \/ ImportTranscript

SpecTranscript == TranscriptInit /\ [][TranscriptNext]_vars

\* The TranscriptSelection elements of the transcript, and the position
\* attribute of the SyncPoint of a GUID
DocSelections == Concat([i \in 1..Len(inp.element) |->
                           Children(inp.element[i], "TranscriptSelection")])

PositionOf(guid) ==
    LET points == Concat([i \in 1..Len(inp.element) |->
                            SelectSeq(Children(inp.element[i], "SyncPoint"),
                                      LAMBDA s : Get(s, "guid") = guid)])
    IN  int(Get(points[1], "position"))

\* The coded spans of the transcript that was exported, as the export reads
\* them
ExportedSpans == OrderByPos0(SelectSeq(inp.store.code_text, LAMBDA r : r.fid = 2))

\* C20: for every TranscriptSelection with a Coding whose CodeRef names a
\* code, the coded span inserted has pos0 the position attribute of the
\* SyncPoint named by fromSyncPoint and pos1 that of the one named by
\* toSyncPoint; so a span [p0, p1) of a transcript, written by
\* get_transcript_syncpoints and get_transcript_selections, is read back as
\* [p0, p1).
C20_TranscriptSpans ==
    pc = "done" =>
       /\ Len(db.code_text) = Len(DocSelections)
       /\ \A i \in 1..Len(DocSelections) :
             /\ db.code_text[i].pos0 = PositionOf(Get(DocSelections[i], "fromSyncPoint"))
             /\ db.code_text[i].pos1 = PositionOf(Get(DocSelections[i], "toSyncPoint"))
       /\ Len(db.code_text) = Len(ExportedSpans)
       /\ \A i \in 1..Len(ExportedSpans) :
             /\ db.code_text[i].pos0 = ExportedSpans[i].pos0
             /\ db.code_text[i].pos1 = ExportedSpans[i].pos1

(***************************************************************************)
(* Sync points that share a boundary or a GUID: get_transcript_selections  *)
(* and parse_transcript_with_codings_and_syncpoints                        *)
(***************************************************************************)
MaxSyncPoints == 3

\* SyncPoint elements of a transcript written by another tool: GUIDs g1 and
\* g2, which may repeat, at positions of the text
ForeignSyncPoints ==
    SeqsUpTo({ Elem("SyncPoint",
                    [guid |-> <<g>>, position |-> str(p), timeStamp |-> str(0)],
                    None, <<>>) : g \in {"g1", "g2"}, p \in {0, 2, 3} },
             MaxSyncPoints)

\* The transcript of the audio a.mp3 comes from another tool: the Transcript
\* element of the file with these sync points and one TranscriptSelection
\* from g1 to g2 coded with code A
ForeignTranscript ==
    /\ pc = "transcript_xml"
    /\ inp.store.code_text = <<>>
    /\ \E points \in ForeignSyncPoints :
          LET selection ==
                  Elem("TranscriptSelection",
                       [guid |-> <<"t1">>, name |-> <<"a", ".", "mp3">>,
                        fromSyncPoint |-> <<"g1">>, toSyncPoint |-> <<"g2">>],
                       None,
                       <<Elem("Coding", [guid |-> <<"c1">>], None,
                              <<Elem("CodeRef",
                                     [targetGUID |-> code_guid(get_codes(inp.store), 1)],
                                     None, <<>>)>>)>>)
              written(xml) ==
                  [i \in 1..Len(xml) |->
                     [etree_parse(xml[i]) EXCEPT !.kids = points \o <<selection>>]]
          IN  inp' = [inp EXCEPT
                        !.element = written(transcript_xml(inp.store, inp.store.source[1],
                                                           "ok", Duration)),
                        !.files = export_project(inp.store, FALSE, FALSE)]
    /\ pc' = "parse_transcript"
    /\ returned' = <<"foreign">>
    /\ UNCHANGED <<guids, db, imp, out>>

SyncPointsNext == ExportTranscript \/ ForeignTranscript \/ ImportTranscript

SpecSyncPoints == TranscriptInit /\ [][SyncPointsNext]_vars

\* The SyncPoint elements of the transcript in document order, and the
\* first of them that fits
DocSyncPoints == Concat([i \in 1..Len(inp.element) |->
                           Children(inp.element[i], "SyncPoint")])

FirstSyncPoint(fits(_)) ==
    LET at == {i \in 1..Len(DocSyncPoints) : fits(DocSyncPoints[i])}
    IN  DocSyncPoints[CHOOSE i \in at : \A j \in at : i <= j]

\* C21: of several sync points that match the end of a selection the first
\* in list order is used: on export toSyncPoint is the GUID of the first sync
\* point at the position pos1 of the span, and on import pos1 of the row is
\* the position read from the first sync point that has the GUID toSyncPoint.
C21_FirstMatchWins ==
    /\ (pc # "transcript_xml" /\ returned = <<>>) =>
          \A i \in 1..Len(DocSelections) :
             Get(DocSelections[i], "toSyncPoint")
                = Get(FirstSyncPoint(LAMBDA s : Get(s, "position")
                                                   = str(ExportedSpans[i].pos1)),
                      "guid")
    /\ pc = "done" =>
          \A i \in 1..Len(DocSelections) :
             (\E k \in 1..Len(DocSyncPoints) :
                 Get(DocSyncPoints[k], "guid") = Get(DocSelections[i], "toSyncPoint"))
             => /\ Len(db.code_text) = Len(DocSelections)
                /\ db.code_text[i].pos1
                     = int(Get(FirstSyncPoint(LAMBDA s : Get(s, "guid")
                                  = Get(DocSelections[i], "toSyncPoint")),
                               "position")) + 1

\* The export half alone, and states where it has something to choose from:
\* two spans that end at the same position
C21_ExportFirstMatch ==
    (pc # "transcript_xml" /\ returned = <<>>) =>
       \A i \in 1..Len(DocSelections) :
          Get(DocSelections[i], "toSyncPoint")
             = Get(FirstSyncPoint(LAMBDA s : Get(s, "position")
                                                = str(ExportedSpans[i].pos1)),
                   "guid")

C21_SharedBoundary ==
    /\ pc = "done"
    /\ returned = <<>>
    /\ Len(ExportedSpans) = 2
    /\ ExportedSpans[1].pos1 = ExportedSpans[2].pos1

(***************************************************************************)
(* Sync points of a transcript with timestamps: get_transcript_syncpoints  *)
(* over get_transcript_timepoints                                          *)
(***************************************************************************)
MaxMarkers == 2

\* Coded spans inside the text, at these character positions
SpanPositions == {0, 2, 7}

SpansWithin(text) ==
    { s \in SeqsUpTo({ p \in SpanPositions \X SpanPositions :
                          p[1] < p[2] /\ p[2] <= Len(text) }, MaxSpans) :
        \A i, j \in 1..Len(s) : i # j => s[i] # s[j] }

\* The store of the audio a.mp3 (source 1) and its transcript (source 2)
\* with this text and these coded spans
TimedStore(text, spans) ==
    [EmptyDb EXCEPT
       !.code_name = <<CodeRow(1, <<"A">>, NULL)>>,
       !.source = <<SourceRow(1, <<"a", ".", "mp3">>, None, <<"/audio/", "a", ".", "mp3">>),
                    SourceRow(2, <<"a", ".", "mp3", ".", "transcribed">>, text, None)>>,
       !.code_text = [i \in 1..Len(spans) |->
                        [CodeTextRow(spans[i][1], spans[i][2]) EXCEPT
                           !.fid = 2,
                           !.seltext = Slice(text, spans[i][1], spans[i][2])]]]

SyncTimesInit ==
    /\ pc = "syncpoints"
    /\ guids = <<>>
    /\ returned = <<>>
    /\ db = EmptyDb
    /\ imp = NewImport
    /\ \E segs \in SeqsUpTo(1..Len(Segments), MaxMarkers), p \in Probes :
          \E spans \in SpansWithin(TextOf(segs)) :
             inp = [segs |-> segs, text |-> TextOf(segs), probe |-> p,
                    duration |-> Duration, store |-> TimedStore(TextOf(segs), spans)]
    /\ out = <<>>

\* sync_list = self.get_transcript_syncpoints(media), with the time points
\* it reads
SyncPointsCall ==
    /\ pc = "syncpoints"
    /\ out' = get_transcript_timepoints(inp.text, inp.probe, inp.duration)
    /\ returned' = get_transcript_syncpoints(inp.store, get_sources(inp.store)[2],
                                             inp.probe, inp.duration)
    /\ pc' = "done"
    /\ UNCHANGED <<guids, db, imp, inp>>

SyncTimesNext == SyncPointsCall

SpecSyncTimes == SyncTimesInit /\ [][SyncTimesNext]_vars

\* The coded spans in pos0 order, the timestamp written for sync point k and
\* the milliseconds of the last anchor at or before a position
TimedSpans == OrderByPos0(inp.store.code_text)

TimeStampOf(k) == int(Get(returned[k].xml, "timeStamp"))

LastAnchorAt(pos) ==
    LET before == {i \in 1..Len(out) : out[i][1] <= pos}
    IN  out[CHOOSE i \in before : \A j \in before : j <= i][2]

\* C22: for n coded spans the sync list has 1 + 2n points: the start point
\* at position 0 with timestamp 0, then for each span in pos0 order a point
\* at pos0 and a point at pos1, duplicates kept; the timestamp of each of
\* these is the milliseconds of the last anchor at or before its position.
C22_SyncPoints ==
    pc = "done" =>
       /\ Len(returned) = 1 + 2 * Len(TimedSpans)
       /\ returned[1].pos = 0
       /\ Get(returned[1].xml, "position") = str(0)
       /\ TimeStampOf(1) = 0
       /\ \A i \in 1..Len(TimedSpans) :
             /\ returned[2 * i].pos = TimedSpans[i].pos0
             /\ Get(returned[2 * i].xml, "position") = str(TimedSpans[i].pos0)
             /\ returned[2 * i + 1].pos = TimedSpans[i].pos1
             /\ Get(returned[2 * i + 1].xml, "position") = str(TimedSpans[i].pos1)
             /\ TimeStampOf(2 * i) = LastAnchorAt(TimedSpans[i].pos0)
             /\ TimeStampOf(2 * i + 1) = LastAnchorAt(TimedSpans[i].pos1)

\* The same without the timestamp of the end points
C22_CountAndPositions ==
    pc = "done" =>
       /\ Len(returned) = 1 + 2 * Len(TimedSpans)
       /\ returned[1].pos = 0
       /\ TimeStampOf(1) = 0
       /\ \A i \in 1..Len(TimedSpans) :
             /\ returned[2 * i].pos = TimedSpans[i].pos0
             /\ returned[2 * i + 1].pos = TimedSpans[i].pos1
             /\ TimeStampOf(2 * i) = LastAnchorAt(TimedSpans[i].pos0)
             /\ TimeStampOf(2 * i + 1) \in {LastAnchorAt(TimedSpans[i].pos1), out[Len(out)][2]}

\* C23: in the anchor list and in the sync list, an entry at a position less
\* than or equal to that of another has milliseconds less than or equal to
\* the other's, for every text and every duration, 0 included.
C23_Monotonic ==
    pc = "done" =>
       /\ \A i, j \in 1..Len(out) : out[i][1] <= out[j][1] => out[i][2] <= out[j][2]
       /\ \A i, j \in 1..Len(returned) :
             returned[i].pos <= returned[j].pos => TimeStampOf(i) <= TimeStampOf(j)

(***************************************************************************)
(* Picture, audio and video sources: load_picture_source,                  *)
(* load_audio_source, load_video_source, then transcript_xml on the store  *)
(***************************************************************************)
\* The media file m/a.mp3 as the path attribute names it
MediaFile == <<"m", "/", "a", ".", "mp3">>

MediaPaths == { InternalScheme \o <<"s1", ".", "mp3">>, RelativeScheme \o MediaFile,
                AbsoluteScheme \o <<"/abs/">> \o MediaFile }

\* basePath of the Project element: absent, empty, or a folder
BasePaths == { None, <<>>, <<"/home/">> }

\* The Transcript children of an audio or video source: none, one with an
\* internal plain text file (present or missing in the archive), one whose
\* plainTextPath is not internal
MediaTranscripts ==
    { [kids |-> <<>>, files |-> <<>>] }
    \cup { [kids |-> <<TranscriptEl(sels)>>, files |-> f] :
              sels \in {<<>>, <<<<"c1">>>>},
              f \in {<<>>, Extracted(<<"t1", ".", "txt">>) :> TextBytes} }
    \cup { [kids |-> <<[TranscriptEl(sels) EXCEPT
                          !.a.plainTextPath = RelativeScheme \o <<"t1", ".", "txt">>]>>,
            files |-> <<>>] : sels \in {<<>>, <<<<"c1">>>>} }

MediaElements ==
    { [element |-> Elem(tag, [guid |-> <<"s1">>, name |-> <<"a", ".", "mp3">>,
                              path |-> p] @@ Stamped, None, t.kids),
       files |-> t.files] :
        tag \in {"AudioSource", "VideoSource"}, p \in MediaPaths, t \in MediaTranscripts }
    \cup { [element |-> Elem("PictureSource",
                             [guid |-> <<"s1">>, name |-> <<"a", ".", "png">>,
                              path |-> p] @@ Stamped, None, <<>>),
            files |-> <<>>] : p \in MediaPaths }

\* An import that has read the user Ann and the code A, about to load the
\* one source of the document
MediaInit ==
    /\ pc = "load_source"
    /\ guids = <<>>
    /\ returned = {}
    /\ db = [EmptyDb EXCEPT !.code_name = <<CodeRow(1, <<"A">>, NULL)>>]
    /\ imp = [NewImport EXCEPT
                !.users = <<[guid |-> <<"u1">>, name |-> <<"Ann">>]>>,
                !.codes = <<[guid |-> <<"c1">>, cid |-> 1]>>]
    /\ \E m \in MediaElements, b \in BasePaths :
          inp = [root |-> Elem("Project",
                               IF b = None THEN [name |-> <<"proj">>]
                               ELSE [name |-> <<"proj">>, basePath |-> b],
                               None, <<Elem("Sources", <<>>, None, <<m.element>>)>>),
                 element |-> m.element, files |-> m.files,
                 contents |-> {<<"project.qde">>, <<"Sources">>}]
    /\ out = <<>>

\* shutil.copyfile(source_path, destination) of the three loaders: only for
\* an internal path
CopiedFiles(h, folder) ==
    IF ~h.raised /\ h.path_type = "internal"
    THEN {[from |-> h.source_path, to |-> folder \o h.name]} ELSE {}

\* parse_project_tag, then the loader of the source; returned holds the
\* files copied into the project folder
LoadSource ==
    /\ pc = "load_source"
    /\ LET done(run) ==
               /\ db' = run.db
               /\ imp' = run.imp
               /\ pc' = IF run.ok THEN "transcript_xml" ELSE "aborted"
               /\ out' = <<>>
           start == parse_project_tag(Run, inp.root)
           folder == IF inp.element.tag = "PictureSource" THEN <<"/images/">>
                     ELSE IF inp.element.tag = "AudioSource" THEN <<"/audio/">>
                     ELSE <<"/video/">>
       IN  /\ done(ForEach(parse_sources, start, Children(inp.root, "Sources")))
           /\ returned' = CopiedFiles(PathHelper(start, inp.element), folder)
    /\ UNCHANGED <<guids, inp>>

\* A later export: the Transcript element transcript_xml writes for the
\* source loaded
TranscriptOfSource ==
    /\ pc = "transcript_xml"
    /\ out' = transcript_xml(db, get_sources(db)[1], "ok", Duration)
    /\ pc' = "exported"
    /\ UNCHANGED <<guids, returned, db, imp, inp>>

MediaNext == LoadSource \/ TranscriptOfSource

SpecMedia == MediaInit /\ [][MediaNext]_vars

IsMedia == inp.element.tag \in {"AudioSource", "VideoSource"}

\* C24: after load_audio_source or load_video_source returns for a source
\* named M, the store has a text source that is the transcript of M, with a
\* fulltext, whether the element has no Transcript, one with an internal
\* plainTextPath or one with another plainTextPath, and transcript_xml finds
\* it for M.
C24_TranscriptCounterpart ==
    /\ (IsMedia /\ pc \in {"transcript_xml", "exported"}) =>
          \E i \in 1..Len(db.source) :
             /\ db.source[i].fulltext # None
             /\ \/ db.source[i].name = Get(inp.element, "name") \o <<".", "transcribed">>
                \/ db.source[i].av_text_id = db.source[1].id
    /\ (IsMedia /\ pc = "exported") => out # <<>>

\* The media source without a Transcript child
C24_NoTranscriptChild ==
    (IsMedia /\ pc = "exported" /\ Children(inp.element, "Transcript") = <<>>) =>
       /\ Len(db.source) = 2
       /\ db.source[2].name = Get(inp.element, "name") \o <<".", "transcribed">>
       /\ db.source[2].fulltext = <<>>
       /\ Len(out) = 1
       /\ Get(out[1], "name") = db.source[2].name

\* The kind prefix of the loader
KindPrefix ==
    IF inp.element.tag = "PictureSource" THEN <<"images:">>
    ELSE IF inp.element.tag = "AudioSource" THEN <<"audio", ":">> ELSE <<"video", ":">>

IsRelative == StartsWith(Get(inp.element, "path"), RelativeScheme)

\* C25: a picture, audio or video source with path relative://X in a
\* document with basePath B is stored with the media reference prefix, B, X,
\* the base path once, and no file is copied into the project.
C25_RelativeOnce ==
    (IsRelative /\ Has(inp.root, "basePath") /\ pc # "load_source") =>
       /\ Len(db.source) >= 1
       /\ db.source[1].mediapath
             = KindPrefix \o Get(inp.root, "basePath")
                  \o After(Get(inp.element, "path"), RelativeScheme)
       /\ returned = {}

\* Without the base path: the reference has the prefix and ends with X, and
\* nothing is copied
C25_Referenced ==
    (IsRelative /\ Has(inp.root, "basePath") /\ pc # "load_source") =>
       /\ Len(db.source) >= 1
       /\ StartsWith(db.source[1].mediapath, KindPrefix)
       /\ EndsWith(db.source[1].mediapath, After(Get(inp.element, "path"), RelativeScheme))
       /\ returned = {}

(***************************************************************************)
(* Line endings of the plain text file: load_text_source                   *)
(***************************************************************************)
MaxBytes == 5

\* Plain text files: the letter a, carriage returns and line feeds
PlainTexts == SeqsUpTo({"a", "\r", "\n"}, MaxBytes)

\* origin of the Project element
Origins == { <<"Q", "C">>, <<"A", "T", "L", "A", "S", ".", "t", "i">> }

LineEndingsInit ==
    /\ pc = "load_text_source"
    /\ guids = <<>>
    /\ returned = <<>>
    /\ db = EmptyDb
    /\ \E origin \in Origins :
          imp = [NewImport EXCEPT
                   !.users = <<[guid |-> <<"u1">>, name |-> <<"Ann">>]>>,
                   !.software_name = origin]
    /\ \E bytes \in PlainTexts :
          inp = [element |-> Elem("TextSource",
                                  [guid |-> <<"s1">>, name |-> <<"doc">>,
                                   plainTextPath |-> InternalPath(<<"s1", ".", "txt">>)]
                                     @@ Stamped,
                                  None, <<>>),
                 bytes |-> bytes,
                 files |-> Extracted(<<"s1", ".", "txt">>) :> bytes,
                 contents |-> {<<"project.qde">>, <<"Sources">>}]
    /\ out = ""

\* self.load_text_source(e) of parse_sources
LoadTextSource ==
    /\ pc = "load_text_source"
    /\ LET done(run) ==
               /\ db' = run.db
               /\ imp' = run.imp
               /\ out' = run.error
               /\ pc' = IF run.ok THEN "done" ELSE "aborted"
       IN  done(load_text_source(Run, inp.element, <<>>, <<>>))
    /\ UNCHANGED <<guids, returned, inp>>

LineEndingsNext == LoadTextSource

SpecLineEndings == LineEndingsInit /\ [][LineEndingsNext]_vars

\* The file has a two-byte line ending; all its line endings are two-byte
HasCrLf(bytes) ==
    \E k \in 1..(Len(bytes) - 1) : bytes[k] = "\r" /\ bytes[k + 1] = "\n"

OnlyCrLf(bytes) ==
    \A k \in 1..Len(bytes) :
       /\ bytes[k] = "\r" => (k < Len(bytes) /\ bytes[k + 1] = "\n")
       /\ bytes[k] = "\n" => (k > 1 /\ bytes[k - 1] = "\r")

\* Every character outside the line endings is stored at its offset in the
\* file
Aligned(bytes, fulltext) ==
    \A k \in 1..Len(bytes) :
       bytes[k] \notin {"\r", "\n"} => (k <= Len(fulltext) /\ fulltext[k] = bytes[k])

FromAtlas == find(imp.software_name, Atlas) >= 0

\* C26: with \r\n line endings in the file and an origin without ATLAS, the
\* stored fulltext has every character that is not part of a line ending at
\* the offset it has in the file, also when the line endings are mixed; with
\* ATLAS in the origin, or one-byte line endings only, the fulltext has no
\* padding character.
C26_LineEndings ==
    pc = "done" =>
       /\ (HasCrLf(inp.bytes) /\ ~FromAtlas)
             => Aligned(inp.bytes, db.source[1].fulltext)
       /\ (FromAtlas \/ ~HasCrLf(inp.bytes))
             => " " \notin Range(db.source[1].fulltext)

\* The same for files whose line endings are all \r\n or all one byte
C26_Unmixed ==
    (pc = "done" /\ (OnlyCrLf(inp.bytes) \/ ~HasCrLf(inp.bytes))) =>
       /\ (HasCrLf(inp.bytes) /\ ~FromAtlas)
             => /\ Aligned(inp.bytes, db.source[1].fulltext)
                /\ Len(db.source[1].fulltext) = Len(inp.bytes)
       /\ (FromAtlas \/ ~HasCrLf(inp.bytes))
             => " " \notin Range(db.source[1].fulltext)

(***************************************************************************)
(* import_project on documents whose top-level children come in any order  *)
(***************************************************************************)
\* The children of Project: the declarations, a named case that has the GUID
\* of code A and a Case without a name with a variable of source s1, the
\* text source s1 (coded with A or not), a Set with s1 in it
OrderedChildren(sels) ==
    DeclarationEls
    \o <<Elem("Cases", <<>>, None,
              <<CaseEl([guid |-> <<"c1">>, name |-> <<"Bo">>],
                       <<ValueEl(<<"v1">>, <<"30">>)>>, <<>>),
                CaseEl([guid |-> <<"k2">>], <<ValueEl(<<"v2">>, <<"f">>)>>,
                       <<<<"s1">>>>)>>),
         Elem("Sources", <<>>, None,
              <<Elem("TextSource",
                     [guid |-> <<"s1">>, name |-> <<"doc">>,
                      plainTextPath |-> InternalPath(<<"s1", ".", "txt">>)] @@ Stamped,
                     None, sels)>>),
         Elem("Sets", <<>>, None, <<SetEl(<<<<"s1">>>>)>>)>>

\* The orderings of n children
Orderings(n) == { f \in [1..n -> 1..n] : \A i, j \in 1..n : i # j => f[i] # f[j] }

OrderedDocuments ==
    { [root |-> Elem("Project", [name |-> <<"proj">>, origin |-> <<"Q", "C">>], None,
                     [i \in 1..Len(OrderedChildren(sels)) |->
                         OrderedChildren(sels)[order[i]]]),
       files |-> f,
       contents |-> {<<"project.qde">>, <<"Sources">>}] :
        sels \in {<<>>, <<Elem("PlainTextSelection",
                               [guid |-> <<"p1">>, startPosition |-> <<"0">>,
                                endPosition |-> <<"2">>] @@ Stamped,
                               None, <<CodingEl(<<"c1">>)>>)>>},
        f \in {<<>>, Extracted(<<"s1", ".", "txt">>) :> TextBytes},
        order \in Orderings(Len(OrderedChildren(<<>>))) }

OrderInit ==
    /\ pc = "declarations"
    /\ guids = <<>>
    /\ returned = <<>>
    /\ db = EmptyDb
    /\ imp = NewImport
    /\ inp \in OrderedDocuments
    /\ out = [tmp |-> FALSE, summary |-> FALSE, error |-> ""]

SpecOrder == OrderInit /\ [][ImportNext]_vars

\* The phases of import_project in the order of the code
PhaseRank ==
    [declarations |-> 1, file_vars |-> 2, sources |-> 3, notes |-> 4, fill |-> 5,
     cases |-> 6, cleanup |-> 7, sets |-> 8, wrapup |-> 9, end |-> 10, aborted |-> 11]

\* What the document declares
DocUsers == Concat([i \in 1..Len(Children(inp.root, "Users")) |->
                      Children(Children(inp.root, "Users")[i], "User")])

DocCodes == Concat([i \in 1..Len(Children(inp.root, "CodeBook")) |->
                      Children(inp.root, "CodeBook")[i].kids[1].kids])

DocDeclared == Concat([i \in 1..Len(Children(inp.root, "Variables")) |->
                         Children(inp.root, "Variables")[i].kids])

DeclarationsRegistered ==
    /\ \A u \in Range(DocUsers) : \E k \in Range(imp.users) : k.guid = Get(u, "guid")
    /\ \A c \in Range(DocCodes) : \E k \in Range(imp.codes) : k.guid = Get(c, "guid")
    /\ \A v \in Range(DocDeclared) :
          \E k \in Range(imp.variables) : k.guid = Get(v, "guid")

\* C27: whatever the order of the children of Project, the phases run in the
\* order of the code; users, codes, categories and variable declarations are
\* all registered before the first source is loaded and only then; the file
\* variables of the Cases without a name are collected before the first
\* source is loaded; they become attribute rows only after the last source is
\* loaded; named Cases are parsed after that, the cleanup of cases that are
\* codes after the named Cases, and Sets last.
C27_Step ==
    /\ PhaseRank[pc'] > PhaseRank[pc]
    /\ (imp'.users # imp.users \/ imp'.codes # imp.codes \/ db'.code_cat # db.code_cat
          \/ imp'.variables # imp.variables) => pc = "declarations"
    /\ imp'.file_vars # imp.file_vars => pc = "file_vars"
    /\ (db'.source # db.source \/ imp'.sources # imp.sources) => pc = "sources"
    /\ pc = "sources" =>
          /\ db.source = <<>>
          /\ DeclarationsRegistered
          /\ db.attribute = <<>> /\ db.cases = <<>> /\ db.case_text = <<>>
    /\ pc = "fill" =>
          /\ \A s \in Range(DocSources) : \E k \in Range(imp.sources) : k.guid = Get(s, "guid")
          /\ db.attribute = <<>> /\ db.cases = <<>>
          /\ Len(db'.attribute) >= Len(db.attribute)
          /\ \A i \in 1..Len(db'.attribute) :
                /\ db'.attribute[i].attr_type = "file"
                /\ \E k \in Range(imp.file_vars) :
                      "name" \in DOMAIN k /\ k.name = db'.attribute[i].name
                         /\ k.value = db'.attribute[i].value
    /\ (db'.cases # db.cases \/ imp'.cases # imp.cases) => pc = "cases"
    /\ db'.case_text # db.case_text => pc = "cleanup"
    /\ Len(db'.code_name) < Len(db.code_name) => pc = "cleanup"
    /\ pc = "cleanup" => \A c \in Range(DocCases) :
                            Get(c, "name") # None
                               => \E k \in Range(imp.cases) : k.guid = Get(c, "guid")
    /\ pc = "sets" =>
          /\ db'.source = db.source /\ db'.cases = db.cases
          /\ db'.code_name = db.code_name /\ db'.case_text = db.case_text
    /\ pc = "wrapup" => db' = db

C27_PhaseOrder == [][C27_Step]_vars

\* An import that went through all phases with an effect in each, of a
\* document that has its Sources before its Users and its Sets before its
\* Cases
C27_Witness ==
    LET place(tag) == CHOOSE i \in 1..Len(inp.root.kids) : inp.root.kids[i].tag = tag
    IN  /\ pc = "end"
        /\ place("Sets") < place("Sources") /\ place("Sources") < place("Cases")
        /\ place("Cases") < place("Users") /\ place("Users") < place("Variables")
        /\ Len(db.source) = 1 /\ Len(db.cases) = 1 /\ Len(db.case_text) = 1
        /\ Len(db.code_name) = 1
        /\ \E i \in 1..Len(db.attribute) :
              db.attribute[i].attr_type = "file" /\ db.attribute[i].name = <<"Sex">>
        /\ \E i \in 1..Len(db.attribute) : db.attribute[i].name = <<"Group">>


(***************************************************************************)
(* project_xml on stores with sources of every kind and cases linked to    *)
(* them                                                                    *)
(***************************************************************************)
\* A text document, a linked text document, a PDF document, a linked PDF
\* document, a picture, an audio file, its transcript, and a linked video
SourceKinds ==
    { [name |-> <<"doc", ".", "txt">>, fulltext |-> Fulltext, mediapath |-> None],
      [name |-> <<"d", ".", "txt">>, fulltext |-> Fulltext,
       mediapath |-> <<"docs:", "/", "d", ".", "txt">>],
      [name |-> <<"p", ".", "pdf">>, fulltext |-> <<"p", "q">>, mediapath |-> None],
      [name |-> <<"l", ".", "PDF">>, fulltext |-> <<"p", "q">>,
       mediapath |-> <<"docs:", "/", "l", ".", "PDF">>],
      [name |-> <<"pic", ".", "png">>, fulltext |-> None,
       mediapath |-> <<"/images", "/", "pic", ".", "png">>],
      [name |-> <<"a", ".", "mp3">>, fulltext |-> None,
       mediapath |-> <<"/audio/", "a", ".", "mp3">>],
      [name |-> <<"a", ".", "mp3", ".", "transcribed">>, fulltext |-> Fulltext,
       mediapath |-> None],
      [name |-> <<"v", ".", "mp4">>, fulltext |-> None,
       mediapath |-> <<"video:", "/", "v", ".", "mp4">>] }

\* One or two different sources, with the ids 1 and 2
SourceLists ==
    { [i \in 1..Len(ks) |-> SourceRow(i, ks[i].name, ks[i].fulltext, ks[i].mediapath)] :
        ks \in { s \in SeqsUpTo(SourceKinds, 2) :
                   s # <<>> /\ \A i, j \in 1..Len(s) : i # j => s[i] # s[j] } }

CaseTextRow(caseid, fid, pos0, pos1) ==
    [caseid |-> caseid, fid |-> fid, pos0 |-> pos0, pos1 |-> pos1, owner |-> Owner,
     memo |-> <<>>]

\* The case Bo and what is assigned to it: nothing, a part of source 1, the
\* whole of source 1, or the whole of every source
CaseLinks(sources) ==
    { <<>>, <<CaseTextRow(1, 1, 0, 2)>>, <<CaseTextRow(1, 1, 0, 0)>>,
      [i \in 1..Len(sources) |-> CaseTextRow(1, sources[i].id, 0, 0)] }

\* Code A on a span of the first source when it has a text, on its region
\* or segment when it has none
LinkedStore(sources, links, coded) ==
    [EmptyDb EXCEPT
       !.code_name = <<CodeRow(1, <<"A">>, NULL)>>,
       !.source = sources,
       !.cases = <<[caseid |-> 1, name |-> <<"Bo">>, memo |-> <<>>]>>,
       !.case_text = links,
       !.code_text = IF coded /\ sources[1].fulltext # None
                     THEN <<CodeTextRow(0, 2)>> ELSE <<>>,
       !.code_image = IF coded /\ IsPictureSource(sources[1])
                      THEN <<[id |-> 1, x1 |-> 1, y1 |-> 2, width |-> 3, height |-> 4,
                              cid |-> 1, memo |-> <<>>, owner |-> Owner]>>
                      ELSE <<>>,
       !.code_av = IF coded /\ (IsAudioSource(sources[1]) \/ IsVideoSource(sources[1]))
                   THEN <<[id |-> 1, pos0 |-> 10, pos1 |-> 20, cid |-> 1,
                           memo |-> <<>>, owner |-> Owner]>>
                   ELSE <<>>]

LinkedStores ==
    UNION { { LinkedStore(sources, links, coded) :
                links \in CaseLinks(sources), coded \in BOOLEAN } :
            sources \in SourceLists }

ExportDocumentInit ==
    /\ pc = "export"
    /\ guids = <<>>
    /\ returned = <<>>
    /\ db = EmptyDb
    /\ imp = NewImport
    /\ inp \in { [store |-> st, maxqda |-> FALSE, stored |-> TRUE,
                  root |-> Elem("Project", <<>>, None, <<>>), files |-> <<>>,
                  contents |-> {}] : st \in LinkedStores }
    /\ out = [tmp |-> FALSE, summary |-> FALSE, error |-> "", staging |-> FALSE]

ExportDocumentNext == ExportProject

SpecExportDocument == ExportDocumentInit /\ [][ExportDocumentNext]_vars

\* project.qde has been written
Exported == pc = "declarations"

\* The elements of a tag in the tree of an element
RECURSIVE ElementsTagged(_, _)
ElementsTagged(e, tag) ==
    (IF e.tag = tag THEN <<e>> ELSE <<>>)
    \o Concat([i \in 1..Len(e.kids) |-> ElementsTagged(e.kids[i], tag)])

\* The source elements of the document: the children of Sources
SourceElements ==
    Concat([i \in 1..Len(Children(inp.root, "Sources")) |->
              Children(inp.root, "Sources")[i].kids])

\* The sources of the store a case_text row of positions 0, 0 assigns to the
\* case of the store
LinkedSources ==
    SelectSeq(inp.store.source,
              LAMBDA s : \E i \in 1..Len(inp.store.case_text) :
                            /\ inp.store.case_text[i].fid = s.id
                            /\ inp.store.case_text[i].pos0 = 0
                            /\ inp.store.case_text[i].pos1 = 0)

CodeRefsResolve ==
    \A r \in Range(ElementsTagged(inp.root, "CodeRef")) :
       \E c \in Range(ElementsTagged(inp.root, "Code")) :
          Get(c, "guid") = Get(r, "targetGUID")

\* C28: in the document project_xml builds, the targetGUID of every
\* SourceRef inside a Case is the guid attribute of a source element that
\* sources_xml wrote for a source linked to the case, and the targetGUID of
\* every CodeRef is the guid attribute of a Code element: no reference is
\* dangling.
C28_ReferencesResolve ==
    Exported =>
       /\ \A r \in Range(ElementsTagged(inp.root, "SourceRef")) :
             \E e \in Range(SourceElements) :
                /\ Get(e, "guid") = Get(r, "targetGUID")
                /\ \E s \in Range(LinkedSources) : Get(e, "name") = s.name
       /\ CodeRefsResolve

\* What holds: a Case has one SourceRef for every source linked to it, and
\* every CodeRef names a Code element of the document.
C28_CodeRefsResolve ==
    Exported =>
       /\ Len(ElementsTagged(inp.root, "SourceRef")) = Len(LinkedSources)
       /\ CodeRefsResolve

\* A document with a SourceRef and a CodeRef
C28_Linked ==
    /\ Exported
    /\ ElementsTagged(inp.root, "SourceRef") # <<>>
    /\ ElementsTagged(inp.root, "CodeRef") # <<>>


\* The source elements sources_xml wrote for the i-th source of the store:
\* they carry the GUID drawn for it
ElementsOfSource(i) ==
    SelectSeq(SourceElements, LAMBDA e : Get(e, "guid") = Guid("element", i))

\* The tag of the element of a source of each kind
KindTag(s) ==
    IF IsAudioSource(s) THEN "AudioSource"
    ELSE IF IsVideoSource(s) THEN "VideoSource"
    ELSE IF IsPictureSource(s) THEN "PictureSource"
    ELSE IF IsPdfName(s.name) THEN "PDFSource"
    ELSE "TextSource"

\* C29: sources_xml writes at most one top-level source element for every
\* source row, of the tag of the source's kind; a linked (docs:) document
\* named .pdf has one element and not two, and a text source named
\* .transcribed has no top-level element: it appears only as the Transcript
\* of its media source.
C29_OneElementPerSource ==
    Exported =>
       \A i \in 1..Len(inp.store.source) :
          /\ Len(ElementsOfSource(i)) <= 1
          /\ \A e \in Range(ElementsOfSource(i)) : e.tag = KindTag(inp.store.source[i])
          /\ IsTranscribed(inp.store.source[i].name) => ElementsOfSource(i) = <<>>

\* What holds: a source that is not a linked document has one element of
\* its kind, or none when it is a transcript; a linked document has a
\* TextSource element, and a PDFSource element too when named .pdf.
C29_ElementsOfKind ==
    Exported =>
       \A i \in 1..Len(inp.store.source) :
          LET s == inp.store.source[i]
              tags == [j \in 1..Len(ElementsOfSource(i)) |-> ElementsOfSource(i)[j].tag]
          IN  IF s.mediapath # None /\ s.mediapath[1] = "docs:"
              THEN tags = IF IsPdfName(s.name) THEN <<"TextSource", "PDFSource">>
                          ELSE <<"TextSource">>
              ELSE IF IsTranscribed(s.name) THEN tags = <<>>
              ELSE tags = <<KindTag(s)>>

\* The transcript of the audio source has been exported inside it
C29_Transcript ==
    /\ Exported
    /\ \E e \in Range(SourceElements) :
          e.tag = "AudioSource" /\ Children(e, "Transcript") # <<>>


(***************************************************************************)
(* Annotations in the round trip: the NoteRef of a TextSource and the Note *)
(***************************************************************************)
\* The Notes of the document that are annotations: those with a
\* PlainTextSelection
AnnotationNotes ==
    SelectSeq(ElementsTagged(inp.root, "Note"),
              LAMBDA n : Children(n, "PlainTextSelection") # <<>>)

\* The targetGUIDs of the NoteRefs inside the TextSource elements
NoteRefs ==
    { Get(r, "targetGUID") :
        r \in UNION { Range(Children(t, "NoteRef")) :
                        t \in Range(ElementsTagged(inp.root, "TextSource")) } }

\* C30: for every annotation of a text source, the guid of the Note that
\* create_annotation_note_xml wrote is the targetGUID of a NoteRef inside
\* the TextSource element, and parse_notes on the exported document inserts
\* one annotation row for every annotation, also for a source with two or
\* more annotations.
C30_AnnotationsLinked ==
    /\ pc \notin {"export", "returned"} =>
          /\ Len(AnnotationNotes) = Len(inp.store.annotation)
          /\ \A n \in Range(AnnotationNotes) : Get(n, "guid") \in NoteRefs
    /\ pc = "end" => Len(db.annotation) = Len(inp.store.annotation)

\* What holds: every annotation has a Note, the Note of the first
\* annotation of the text source is the one its NoteRef names, and the
\* import inserts that annotation and no other.
C30_FirstAnnotationLinked ==
    /\ pc \notin {"export", "returned"} =>
          /\ Len(AnnotationNotes) = Len(inp.store.annotation)
          /\ inp.store.annotation # <<>> =>
                NoteRefs = {Get(AnnotationNotes[1], "guid")}
    /\ pc = "end" =>
          db.annotation = IF inp.store.annotation = <<>> THEN <<>>
                          ELSE <<inp.store.annotation[1]>>

\* A source with two annotations has been exported and imported
C30_TwoAnnotations == pc = "end" /\ Len(inp.store.annotation) = 2

=============================================================================
